------------------------------ MODULE ArbProofs ------------------------------
(***************************************************************************)
(* Proofs about the arbitrage executor, for every amount, threshold and    *)
(* number of turns: Lighter and the reversal together never exceed what    *)
(* Bybit executed, every run implements the ledger of ArbLedger, and every *)
(* failed run counts once.                                                 *)
(*                                                                         *)
(* The argument: the maker engine's invariant bounds reported by bought;   *)
(* the executor acts on Bybit only through the engine, so reported is      *)
(* frozen once the engine has returned while bought can only grow; each    *)
(* leg is bounded by reported (Legs), and no leg moves twice because step  *)
(* only goes forward.  The step, with the engine's calls left before it,   *)
(* also bounds the run (StepsLeft).                                        *)
(***************************************************************************)
EXTENDS ArbExecutor, MakerProofs

(* The market order is the last call of the engine.                        *)
MarketLast == "market" \in lost => pc = "done"

Legs ==
  /\ hedged <= reported /\ reversed <= reported
  /\ "lighter" \notin lostLegs => hedged + reversed <= reported
  /\ step \in {"preflight", "maker", "hedge"} => hedged = 0 /\ reversed = 0
  /\ step = "reverse" => reversed = 0 /\ ("lighter" \notin lostLegs => hedged = 0)

Counting ==
  /\ step \in {"preflight", "maker", "hedge", "reverse"} => ~counted
  /\ ~counted => failures < MaxFailures
  /\ step = "raise" => counted /\ journal = "reversed"

ArbInv == MakerInv /\ MarketLast /\ TypeOK /\ Legs /\ Counting

(* The parts of the type invariant.                                        *)
FlagTypes == tripped \in BOOLEAN /\ counted \in BOOLEAN
ValueTypes ==
  /\ lostLegs \subseteq {"lighter", "reverse"}
  /\ step \in Steps /\ journal \in Rows
  /\ hedged \in 0..Target /\ reversed \in 0..Target
  /\ failures \in 0..MaxFailures

LEMMA TypeParts == TypeOK <=> FlagTypes /\ ValueTypes
BY DEF TypeOK, FlagTypes, ValueTypes

LEMMA TypePartsNext == FlagTypes' /\ ValueTypes' => TypeOK'
BY DEF TypeOK, FlagTypes, ValueTypes

(* Numbers the steps below need.                                           *)
LEMMA Numbers ==
  ASSUME MakerInv
  PROVE  /\ bought \in Nat /\ reported \in 0..Target /\ reported \in Nat
         /\ "market" \notin lost => reported <= bought
BY MakerAssumption DEF MakerInv, Orders, EngineTypes, TotalsCounted

(* The engine's calls: none is made once it is done, and only the market   *)
(* order may be lost as one.                                               *)
LEMMA CallsOf ==
  ASSUME Engine
  PROVE  /\ pc # "done"
         /\ Market \/ ("market" \in lost' => "market" \in lost)
<1>1. CASE Place \/ Turn \/ Poll \/ Book \/ Amend
  BY <1>1 DEF Place, Turn, Poll, Book, Amend, Note
<1>2. CASE PollRaises \/ RecheckRaises \/ FinalPollRaises
  BY <1>2 DEF PollRaises, RecheckRaises, FinalPollRaises, StatusRaises
<1>3. CASE Recheck \/ Replace \/ CancelOld \/ FinalCancel \/ Abort
  BY <1>3 DEF Recheck, Replace, CancelOld, FinalCancel, Abort, Cancel, Note
<1>4. CASE FinalPoll
  BY <1>4 DEF FinalPoll, Note
<1>5. CASE Market
  BY <1>5 DEF Market
<1> QED
  BY <1>1, <1>2, <1>3, <1>4, <1>5 DEF Engine

LEMMA MarketLastKept == MarketLast /\ [MakerNext]_makerVars => MarketLast'
<1> SUFFICES ASSUME MarketLast, [MakerNext]_makerVars PROVE MarketLast'
  OBVIOUS
<1>1. CASE UNCHANGED makerVars
  BY <1>1 DEF MarketLast, makerVars
<1>2. CASE Exchange
  BY <1>2 DEF Exchange, Fill, ExchangeCancel, Arrive, MarketLast
<1>3. CASE Engine
  <2>1. CASE Market
    BY <2>1 DEF Market, Return, MarketLast
  <2>2. CASE ~Market
    BY <1>3, <2>2, CallsOf DEF MarketLast
  <2> QED
    BY <2>1, <2>2
<1> QED
  BY <1>1, <1>2, <1>3 DEF MakerNext

(* What Bybit has executed only grows.                                     *)
LEMMA BoughtGrows == MakerInv /\ [MakerNext]_makerVars => bought' >= bought
<1> SUFFICES ASSUME MakerInv, [MakerNext]_makerVars PROVE bought' >= bought
  OBVIOUS
<1>1. bought \in Nat
  BY Numbers
<1>2. bought' = bought \/ \E got \in Nat : bought' = bought + got
  <2>1. CASE Exchange
    BY <2>1 DEF Exchange, Fill, ExchangeCancel, Arrive
  <2>2. CASE Market
    <3>1. PICK got \in 0..Remaining : bought' = bought + got
      BY <2>2 DEF Market
    <3> QED
      BY <3>1
  <2>3. CASE Engine /\ ~Market
    BY <2>3 DEF Engine, Place, Turn, Poll, PollRaises, Book, Amend, Recheck,
       RecheckRaises, CancelOld, Replace, FinalCancel, FinalPoll, FinalPollRaises,
       Abort, StatusRaises, exchangeVars
  <2> QED
    BY <2>1, <2>2, <2>3 DEF MakerNext, makerVars
<1> QED
  BY <1>1, <1>2

(* The exchange acting alone leaves what the engine returned.              *)
LEMMA ReportFrozen == Exchange => reported' = reported
BY DEF Exchange, Fill, ExchangeCancel, Arrive

-----------------------------------------------------------------------------
LEMMA ArbInitInv == Init => ArbInv
<1> SUFFICES ASSUME Init PROVE ArbInv
  OBVIOUS
<1>1. MakerInv
  BY InitInv DEF Init
<1>2. MarketLast
  BY DEF Init, MakerInit, MarketLast
<1>3. reported = 0 /\ 0 \in 0..Target
  BY MakerAssumption DEF Init, MakerInit
<1>4. TypeOK
  <2>1. FlagTypes
    BY Zenon DEF Init, FlagTypes
  <2>2. failures \in 0..MaxFailures
    BY ArbAssumption DEF Init
  <2>3. ValueTypes
    BY <1>3, <2>2 DEF Init, ValueTypes, Steps, Rows
  <2> QED
    BY <2>1, <2>3, TypeParts
<1>5. Legs /\ Counting
  BY <1>3, ArbAssumption DEF Init, Legs, Counting
<1> QED
  BY <1>1, <1>2, <1>4, <1>5 DEF ArbInv

(* A step of the maker engine or of the exchange.                          *)
LEMMA MakerPart ==
  ASSUME ArbInv, [MakerNext]_makerVars, UNCHANGED arbVars,
         reported' = reported \/ step = "maker"
  PROVE  ArbInv'
<1> USE DEF ArbInv
<1>1. MakerInv' /\ MarketLast'
  BY MakerStep, MarketLastKept
<1>2. TypeOK' /\ Counting'
  BY DEF TypeOK, Counting, arbVars
<1>3. reported' \in Nat
  BY <1>1, MakerAssumption DEF MakerInv, EngineTypes
<1>4. Legs'
  BY <1>3 DEF Legs, arbVars
<1> QED
  BY <1>1, <1>2, <1>4

(* A step of the executor, which leaves the engine's variables.            *)
LEMMA MakerSame ==
  ASSUME ArbInv, UNCHANGED makerVars
  PROVE  MakerInv' /\ MarketLast' /\ reported' = reported
BY StutterKeeps DEF ArbInv, MarketLast, makerVars

LEMMA PreflightKeeps == ArbInv /\ Preflight => ArbInv'
<1> SUFFICES ASSUME ArbInv, Preflight PROVE ArbInv'
  OBVIOUS
<1>1. MakerInv' /\ MarketLast' /\ reported' = reported
  BY MakerSame DEF Preflight
<1>2. failures \in 0..MaxFailures /\ failures < MaxFailures
  BY DEF ArbInv, Counting, TypeOK, Preflight
<1>3. TypeOK'
  <2>1. FlagTypes'
    <3>1. tripped' \in {tripped, TRUE} /\ counted' \in {counted, TRUE}
      BY DEF Preflight, RecordFailure
    <3> QED
      BY <3>1 DEF ArbInv, TypeOK, FlagTypes
  <2>2. ValueTypes'
    <3>1. failures' \in {failures, failures + 1}
      BY DEF Preflight, RecordFailure
    <3>2. failures' \in 0..MaxFailures
      BY <1>2, <3>1, ArbAssumption
    <3>3. step' \in Steps /\ journal' \in Rows
      BY DEF ArbInv, TypeOK, Preflight, Goto, Write, Steps, Rows
    <3>4. UNCHANGED <<hedged, reversed, lostLegs>>
      BY DEF Preflight
    <3> QED
      BY <3>2, <3>3, <3>4 DEF ArbInv, TypeOK, ValueTypes
  <2> QED
    BY <2>1, <2>2, TypePartsNext
<1>4. Legs'
  BY <1>1 DEF ArbInv, Legs, Preflight, Goto
<1>5. Counting'
  BY <1>2 DEF ArbInv, Counting, Preflight, Goto
<1> QED
  BY <1>1, <1>3, <1>4, <1>5 DEF ArbInv

LEMMA AbortedKeeps == ArbInv /\ Aborted => ArbInv'
<1> SUFFICES ASSUME ArbInv, Aborted PROVE ArbInv'
  OBVIOUS
<1>1. MakerInv' /\ MarketLast' /\ reported' = reported
  BY MakerSame DEF Aborted
<1>2. TypeOK'
  BY DEF ArbInv, TypeOK, Aborted, Goto, Write, Steps, Rows
<1>3. Legs' /\ Counting'
  BY <1>1 DEF ArbInv, Legs, Counting, Aborted, Goto
<1> QED
  BY <1>1, <1>2, <1>3 DEF ArbInv

LEMMA EvaluateKeeps == ArbInv /\ Evaluate => ArbInv'
<1> SUFFICES ASSUME ArbInv, Evaluate PROVE ArbInv'
  OBVIOUS
<1>1. MakerInv' /\ MarketLast' /\ reported' = reported
  BY MakerSame DEF Evaluate
<1>2. step' \in {"reverse", "hedge"} /\ step = "maker"
  BY DEF Evaluate, Goto
<1>3. TypeOK'
  BY <1>2 DEF ArbInv, TypeOK, Evaluate, Steps
<1>4. Legs' /\ Counting'
  BY <1>1, <1>2 DEF ArbInv, Legs, Counting, Evaluate
<1> QED
  BY <1>1, <1>3, <1>4 DEF ArbInv

LEMMA HedgeKeeps == ArbInv /\ Hedge => ArbInv'
<1> SUFFICES ASSUME ArbInv, Hedge PROVE ArbInv'
  OBVIOUS
<1>1. MakerInv' /\ MarketLast' /\ reported' = reported
  BY MakerSame DEF Hedge
<1>2. reported \in Nat /\ reported \in 0..Target
  BY Numbers DEF ArbInv
<1>3. PICK got \in 0..reported :
        /\ hedged' = got
        /\ \/ /\ RecordSuccess
              /\ Write(IF status = "partial" THEN "partial" ELSE "success")
              /\ Goto("end")
              /\ lostLegs' = IF got = reported THEN lostLegs ELSE lostLegs \cup {"lighter"}
           \/ /\ Goto("reverse")
              /\ lostLegs' = IF got = 0 THEN lostLegs ELSE lostLegs \cup {"lighter"}
              /\ UNCHANGED <<failures, tripped, journal>>
  BY DEF Hedge
<1>4. /\ UNCHANGED <<reversed, counted>> /\ reversed = 0 /\ ~counted
      /\ failures' \in {0, failures} /\ tripped' = tripped
      /\ step' \in {"end", "reverse"}
  BY <1>3 DEF Hedge, RecordSuccess, Goto, ArbInv, Legs, Counting
<1>5. TypeOK'
  <2>1. lostLegs' \subseteq {"lighter", "reverse"}
    BY <1>3 DEF ArbInv, TypeOK
  <2>2. journal' \in Rows /\ step' \in Steps
    BY <1>3, <1>4 DEF ArbInv, TypeOK, Write, Rows, Steps
  <2>3. hedged' \in 0..Target /\ reversed' \in 0..Target /\ failures' \in 0..MaxFailures
    BY <1>2, <1>3, <1>4, MakerAssumption, ArbAssumption DEF ArbInv, TypeOK
  <2>4. tripped' \in BOOLEAN /\ counted' \in BOOLEAN
    BY <1>4 DEF ArbInv, TypeOK
  <2> QED
    BY <2>1, <2>2, <2>3, <2>4 DEF TypeOK
<1>6. Legs'
  BY <1>1, <1>2, <1>3, <1>4 DEF Legs, Goto
<1>7. Counting'
  BY <1>3, <1>4, ArbAssumption DEF ArbInv, Counting, Goto
<1> QED
  BY <1>1, <1>5, <1>6, <1>7 DEF ArbInv

LEMMA ReverseKeeps == ArbInv /\ Reverse => ArbInv'
<1> SUFFICES ASSUME ArbInv, Reverse PROVE ArbInv'
  OBVIOUS
<1>1. MakerInv' /\ MarketLast' /\ reported' = reported
  BY MakerSame DEF Reverse
<1>2. reported \in Nat /\ reported \in 0..Target
  BY Numbers DEF ArbInv
<1>3. /\ reversed' \in {0, reported} /\ lostLegs' \in {lostLegs, lostLegs \cup {"reverse"}}
      /\ step' \in {"end", "raise"} /\ journal' = "reversed" /\ counted' = TRUE
      /\ hedged' = hedged /\ step = "reverse"
  BY DEF Reverse, Goto, Write
<1>4. failures \in 0..MaxFailures /\ failures < MaxFailures
  BY DEF ArbInv, Counting, TypeOK, Reverse
<1>5. TypeOK'
  <2>1. FlagTypes'
    <3>1. tripped' \in {tripped, TRUE}
      BY DEF Reverse, RecordFailure
    <3> QED
      BY <1>3, <3>1 DEF ArbInv, TypeOK, FlagTypes
  <2>2. failures' = failures + 1
    BY DEF Reverse, RecordFailure
  <2>3. failures' \in 0..MaxFailures
    BY <1>4, <2>2, ArbAssumption
  <2>4. reversed' \in 0..Target
    BY <1>2, <1>3, MakerAssumption
  <2>5. ValueTypes'
    BY <1>3, <2>3, <2>4 DEF ArbInv, TypeOK, ValueTypes, Steps, Rows
  <2> QED
    BY <2>1, <2>5, TypePartsNext
<1>6. Legs'
  BY <1>1, <1>2, <1>3 DEF ArbInv, Legs
<1>7. Counting'
  BY <1>3 DEF Counting
<1> QED
  BY <1>1, <1>5, <1>6, <1>7 DEF ArbInv

LEMMA RaiseStepKeeps == ArbInv /\ Raise => ArbInv'
<1> SUFFICES ASSUME ArbInv, Raise PROVE ArbInv'
  OBVIOUS
<1>1. MakerInv' /\ MarketLast' /\ reported' = reported
  BY MakerSame DEF Raise
<1>2. counted /\ step' = "end" /\ step = "raise"
      /\ UNCHANGED <<failures, tripped, hedged, reversed, journal, counted, lostLegs>>
  BY DEF ArbInv, Counting, Raise, Goto
<1>3. TypeOK'
  BY <1>2 DEF ArbInv, TypeOK, Steps
<1>4. Legs' /\ Counting'
  BY <1>1, <1>2 DEF ArbInv, Legs, Counting
<1> QED
  BY <1>1, <1>3, <1>4 DEF ArbInv

LEMMA ArbStep == ArbInv /\ [Next]_vars => ArbInv'
<1> SUFFICES ASSUME ArbInv, [Next]_vars PROVE ArbInv'
  OBVIOUS
<1>1. CASE UNCHANGED vars
  BY <1>1, MakerPart DEF vars, makerVars
<1>2. CASE Working
  BY <1>2, MakerPart DEF Working
<1>3. CASE LateExchange
  BY <1>3, MakerPart, ReportFrozen DEF LateExchange, MakerNext
<1>4. CASE Run
  BY <1>4, PreflightKeeps, AbortedKeeps, EvaluateKeeps, HedgeKeeps, ReverseKeeps,
     RaiseStepKeeps DEF Run
<1> QED
  BY <1>1, <1>2, <1>3, <1>4 DEF Next

-----------------------------------------------------------------------------
LEMMA ArbAlways == Spec => []ArbInv
BY ArbInitInv, ArbStep, PTL DEF Spec

(* The executor's values keep their types.                                 *)
THEOREM ArbTyped == Spec => []TypeOK
<1>1. ArbInv => TypeOK
  BY DEF ArbInv
<1> QED
  BY <1>1, ArbAlways, PTL

(* Lighter and the reversal together never take more than Bybit executed,  *)
(* whatever calls to Bybit were lost and however often the order was       *)
(* replaced, unless the answer to the market order was.                    *)
THEOREM HedgeIsCovered == Spec => []NeverOverHedged
<1>1. ArbInv => NeverOverHedged
  <2> SUFFICES ASSUME ArbInv, "lighter" \notin lostLegs, "market" \notin lost
               PROVE  Naked >= 0
    BY DEF NeverOverHedged
  <2>1. bought \in Nat /\ reported \in Nat /\ reported <= bought
    BY Numbers DEF ArbInv
  <2>2. hedged \in Int /\ reversed \in Int /\ hedged + reversed <= reported
    BY MakerAssumption DEF ArbInv, Legs, TypeOK
  <2> QED
    BY <2>1, <2>2 DEF Naked
<1> QED
  BY <1>1, ArbAlways, PTL

(* A failed run counts as one failure of the breaker, by whichever path it *)
(* ended, and the last allowed failure trips it.                           *)
THEOREM FailuresCountOnce == Spec => FailureCountedOnce
<1> DEFINE A == /\ failures' # failures => ~counted
                /\ (tripped' # tripped) => failures' = MaxFailures
                /\ step # "end" /\ step' = "end" =>
                     (counted' <=> (journal' = "reversed" \/ step = "preflight"))
<1>1. ArbInv /\ [Next]_vars => [A]_arbVars
  <2> SUFFICES ASSUME ArbInv, [Next]_vars PROVE [A]_arbVars
    OBVIOUS
  <2>1. CASE UNCHANGED vars \/ Working \/ LateExchange
    BY <2>1 DEF vars, Working, LateExchange
  <2>2. CASE Preflight \/ Reverse
    <3>1. step \in {"preflight", "reverse"}
      BY <2>2 DEF Preflight, Reverse
    <3>2. ~counted
      BY <3>1 DEF ArbInv, Counting
    <3>3. failures \in 0..MaxFailures /\ failures < MaxFailures
      BY <3>2 DEF ArbInv, Counting, TypeOK
    <3>4. (tripped' # tripped) => failures' = MaxFailures
      <4>1. failures' = failures \/ failures' = failures + 1
        BY <2>2 DEF Preflight, Reverse, RecordFailure
      <4>2. tripped' # tripped => failures' >= MaxFailures
        BY <2>2, Zenon DEF Preflight, Reverse, RecordFailure
      <4> QED
        BY <3>3, <4>1, <4>2, ArbAssumption
    <3>5. step' = "end" =>
            (counted' <=> (journal' = "reversed" \/ step = "preflight"))
      BY <2>2 DEF Preflight, Reverse, Goto, Write
    <3> QED
      BY <3>2, <3>4, <3>5
  <2>3. CASE Aborted \/ Evaluate
    <3>1. step = "maker"
      BY <2>3 DEF Aborted, Evaluate
    <3>2. ~counted
      BY <3>1 DEF ArbInv, Counting
    <3>3. counted' = counted /\ failures' = failures /\ tripped' = tripped
      BY <2>3 DEF Aborted, Evaluate
    <3>4. step' = "end" => journal' = "aborted"
      BY <2>3 DEF Aborted, Evaluate, Goto, Write
    <3> QED
      BY <3>1, <3>2, <3>3, <3>4
  <2>4. CASE Hedge
    <3>1. step = "hedge"
      BY <2>4 DEF Hedge
    <3>2. ~counted
      BY <3>1 DEF ArbInv, Counting
    <3>3. counted' = counted /\ tripped' = tripped
      BY <2>4 DEF Hedge, RecordSuccess
    <3>4. step' = "end" => journal' \in {"partial", "success"}
      BY <2>4 DEF Hedge, Goto, Write
    <3> QED
      BY <3>1, <3>2, <3>3, <3>4
  <2>5. CASE Raise
    <3>1. step = "raise" /\ journal' = journal /\ counted' = counted
      BY <2>5 DEF Raise
    <3>2. counted /\ journal = "reversed"
      BY <3>1 DEF ArbInv, Counting
    <3>3. failures' = failures /\ tripped' = tripped
      BY <2>5, <3>2 DEF Raise
    <3> QED
      BY <3>1, <3>2, <3>3
  <2> QED
    BY <2>1, <2>2, <2>3, <2>4, <2>5 DEF Next, Run
<1>2. Spec => [][A]_arbVars
  BY <1>1, ArbAlways, PTL DEF Spec
<1> QED
  BY <1>2 DEF FailureCountedOnce

-----------------------------------------------------------------------------
(* The legs of a run that does not report an abort.                        *)
Judged == step \in {"hedge", "reverse", "raise"} \/ (step = "end" /\ journal # "aborted")

Matched ==
  /\ Judged => pc = "done" /\ status # "aborted"
  /\ Judged /\ step \in {"raise", "end"} /\ lostLegs = {} => hedged + reversed = reported

LegsInv == ArbInv /\ Extra /\ Matched

LEMMA LegsInit == Init => LegsInv
<1>1. Init => Extra
  BY InitExtra DEF Init
<1>2. Init => Matched
  BY DEF Init, Matched, Judged
<1> QED
  BY <1>1, <1>2, ArbInitInv DEF LegsInv

LEMMA MatchedRun == LegsInv /\ Run => Matched'
<1> SUFFICES ASSUME LegsInv, Run PROVE Matched'
  OBVIOUS
<1> USE DEF LegsInv
<1>1. UNCHANGED <<pc, status, reported>>
  BY DEF Run, Preflight, Aborted, Evaluate, Hedge, Reverse, Raise, makerVars
<1>2. reported \in Nat
  BY Numbers DEF ArbInv
<1>3. CASE Preflight \/ Aborted
  BY <1>3 DEF Preflight, Aborted, Goto, Write, Matched, Judged
<1>4. CASE Evaluate
  BY <1>1, <1>4 DEF Evaluate, Goto, Matched, Judged
<1>5. CASE Hedge
  <2>1. pc = "done" /\ status # "aborted" /\ reversed = 0 /\ reversed' = reversed
    BY <1>5 DEF Hedge, Matched, Judged, ArbInv, Legs
  <2>2. step' = "reverse" \/ (step' = "end" /\ (lostLegs' = {} => hedged' = reported))
    BY <1>5 DEF Hedge, Goto
  <2> QED
    BY <1>1, <1>2, <2>1, <2>2 DEF Matched, Judged
<1>6. CASE Reverse
  <2>1. pc = "done" /\ status # "aborted" /\ hedged' = hedged
    BY <1>6 DEF Reverse, Matched, Judged
  <2>2. lostLegs' = {} => lostLegs = {} /\ reversed' = reported
    BY <1>6 DEF Reverse
  <2>3. lostLegs = {} => hedged = 0
    BY <1>6 DEF Reverse, ArbInv, Legs
  <2>4. step' \in {"raise", "end"}
    BY <1>6 DEF Reverse, Goto
  <2> QED
    BY <1>1, <1>2, <2>1, <2>2, <2>3, <2>4 DEF Matched, Judged
<1>7. CASE Raise
  <2>1. /\ step = "raise" /\ step' = "end"
        /\ UNCHANGED <<hedged, reversed, journal, lostLegs>>
    BY <1>7 DEF Raise, Goto
  <2> QED
    BY <1>1, <2>1 DEF Matched, Judged
<1> QED
  BY <1>3, <1>4, <1>5, <1>6, <1>7 DEF Run

LEMMA LegsStep == LegsInv /\ [Next]_vars => LegsInv'
<1> SUFFICES ASSUME LegsInv, [Next]_vars PROVE LegsInv'
  OBVIOUS
<1> USE DEF LegsInv
<1>1. ArbInv'
  BY ArbStep
<1>2. Extra'
  <2>1. [MakerNext]_makerVars
    BY DEF Next, vars, Working, LateExchange, MakerNext, Run, Preflight, Aborted,
       Evaluate, Hedge, Reverse, Raise
  <2> QED
    BY <2>1, ExtraStep DEF ArbInv
<1>3. Matched'
  <2>1. CASE Run
    BY <2>1, MatchedRun
  <2>2. CASE Working
    BY <2>2 DEF Working, arbVars, Matched, Judged
  <2>3. CASE LateExchange
    <3>1. UNCHANGED <<pc, status, reported>> /\ UNCHANGED arbVars
      BY <2>3 DEF LateExchange, Exchange, Fill, ExchangeCancel, Arrive
    <3> QED
      BY <3>1 DEF arbVars, Matched, Judged
  <2>4. CASE UNCHANGED vars
    BY <2>4 DEF vars, makerVars, arbVars, Matched, Judged
  <2> QED
    BY <2>1, <2>2, <2>3, <2>4 DEF Next
<1> QED
  BY <1>1, <1>2, <1>3

(* A run that does not report an abort leaves no naked leg and no resting  *)
(* order, when no call was lost and the order was never replaced, but for  *)
(* the less than MinQty a "filled" order may still have on the book: for   *)
(* every amount, minimum and threshold.                                    *)
THEOREM NoNakedLeg == Spec => []LegsMatch
<1>1. LegsInv => LegsMatch
  <2> SUFFICES ASSUME LegsInv, Ended, journal # "aborted", lost \cup lostLegs = {}, Sole
               PROVE  /\ Naked >= 0 /\ Naked + Resting < MinQty
                      /\ status # "filled" => Naked = 0 /\ Open = {}
    BY DEF LegsMatch
  <2>1. pc = "done" /\ status # "aborted" /\ hedged + reversed = reported
    BY DEF LegsInv, Matched, Judged, Ended
  <2>2. MakerInv /\ Extra /\ NoneLost /\ lost = {}
    BY DEF LegsInv, ArbInv, NoneLost
  <2>3. Final /\ (status # "filled" => Open = {})
    BY <2>1, <2>2, DoneExact, DoneClear
  <2>4. bought \in Nat /\ hedged \in Int /\ reversed \in Int
    BY Numbers, MakerAssumption DEF LegsInv, ArbInv, TypeOK
  <2>5. Resting \in Int
    BY <2>2, MakerAssumption DEF Resting, MakerInv, Orders, OrderType, EngineTypes
  <2>6. Naked = bought - reported
    BY <2>1, <2>4 DEF Naked
  <2>7. /\ reported <= bought /\ bought + Resting < reported + MinQty
        /\ status # "filled" => reported = bought
    BY <2>3 DEF Final
  <2>8. reported \in Nat /\ MinQty \in Nat
    BY <2>2, Numbers, MakerAssumption
  <2>9. Naked >= 0 /\ Naked + Resting < MinQty
    BY <2>4, <2>5, <2>6, <2>7, <2>8
  <2> QED
    BY <2>3, <2>4, <2>6, <2>7, <2>9
<1> QED
  BY <1>1, LegsInit, LegsStep, PTL DEF Spec

-----------------------------------------------------------------------------
(* The refinement: the initial state maps to the ledger's, every step to a *)
(* step of the ledger or to a stutter.                                     *)
LEMMA StageOf ==
  /\ step \in {"preflight", "maker", "hedge"} => Stage = "buying"
  /\ step = "reverse" => Stage = "undoing"
  /\ step \in {"raise", "end"} => Stage = "over"
BY DEF Stage

LEMMA StageOfNext ==
  /\ step' \in {"preflight", "maker", "hedge"} => Stage' = "buying"
  /\ step' = "reverse" => Stage' = "undoing"
  /\ step' \in {"raise", "end"} => Stage' = "over"
BY DEF Stage

LEMMA LedgerInit == Init => Ledger!Init
BY StageOf DEF Init, MakerInit, Believed, Ledger!Init

LEMMA LedgerMaker ==
  ASSUME ArbInv, [MakerNext]_makerVars, UNCHANGED arbVars
  PROVE  [Ledger!Next]_(Ledger!vars)
<1>1. bought' >= bought /\ bought \in Nat /\ reported \in Nat
  BY BoughtGrows, Numbers DEF ArbInv
<1>2. bought' \in Nat /\ reported' \in Nat
  <2>1. MakerInv'
    BY MakerStep DEF ArbInv
  <2> QED
    BY <2>1, MakerAssumption DEF MakerInv, Orders, EngineTypes
<1>3. step' = step /\ hedged' = hedged /\ reversed' = reversed
  BY DEF arbVars
<1>4. Stage' = Stage
  BY <1>3 DEF Stage
<1>5. "market" \in lost => reported' = reported /\ "market" \in lost'
  <2>1. "market" \in lost => Exchange \/ UNCHANGED makerVars
    BY CallsOf DEF ArbInv, MarketLast, MakerNext
  <2> QED
    BY <2>1 DEF Exchange, Fill, ExchangeCancel, Arrive, makerVars
<1>6. Believed' >= Believed /\ Believed \in Nat /\ Believed' \in Nat
  BY <1>1, <1>2, <1>5 DEF Believed
<1>7. CASE Believed' = Believed
  BY <1>3, <1>4, <1>7 DEF Ledger!vars
<1>8. CASE Believed' # Believed
  <2>1. Believed' > Believed
    BY <1>6, <1>8
  <2> QED
    BY <1>3, <1>4, <2>1 DEF Ledger!Next, Ledger!Buy
<1> QED
  BY <1>7, <1>8

LEMMA LedgerRun ==
  ASSUME ArbInv, Run
  PROVE  [Ledger!Next]_(Ledger!vars)
<1>1. Believed' = Believed
  BY DEF Run, Preflight, Aborted, Evaluate, Hedge, Reverse, Raise, makerVars, Believed
<1>2. reported \in Nat /\ reported <= Believed /\ Believed \in Nat
  BY Numbers DEF ArbInv, Believed
<1>3. CASE Preflight
  <2>1. Stage = "buying" /\ Stage' \in {"buying", "over"}
    BY <1>3, StageOf, StageOfNext DEF Preflight, Goto
  <2>2. hedged' = hedged /\ reversed' = reversed
    BY <1>3 DEF Preflight
  <2> QED
    BY <1>1, <2>1, <2>2 DEF Ledger!vars, Ledger!Next, Ledger!Abort
<1>4. CASE Aborted
  <2>1. Stage = "buying" /\ Stage' = "over" /\ hedged' = hedged /\ reversed' = reversed
    BY <1>4, StageOf, StageOfNext DEF Aborted, Goto
  <2> QED
    BY <1>1, <2>1 DEF Ledger!Next, Ledger!Abort
<1>5. CASE Evaluate
  <2>1. step' \in {"reverse", "hedge"} /\ step = "maker"
    BY <1>5 DEF Evaluate, Goto
  <2>2. Stage = "buying" /\ Stage' \in {"buying", "undoing"}
    BY <2>1, StageOf, StageOfNext
  <2>3. hedged' = hedged /\ reversed' = reversed
    BY <1>5 DEF Evaluate
  <2> QED
    BY <1>1, <2>2, <2>3 DEF Ledger!vars, Ledger!Next, Ledger!GiveUp
<1>6. CASE Hedge
  <2>1. step = "hedge" /\ step' \in {"end", "reverse"} /\ reversed' = reversed
    BY <1>6 DEF Hedge, Goto
  <2>2. Stage = "buying" /\ Stage' \in {"undoing", "over"}
    BY <2>1, StageOf, StageOfNext
  <2>3. hedged' \in 0..reported
    BY <1>6 DEF Hedge
  <2>4. hedged' >= 0 /\ hedged' <= Believed
    BY <1>2, <2>3
  <2> QED
    BY <1>1, <2>1, <2>2, <2>4 DEF Ledger!Next, Ledger!Hedge
<1>7. CASE Reverse
  <2>1. step = "reverse" /\ step' \in {"end", "raise"} /\ hedged' = hedged
    BY <1>7 DEF Reverse, Goto
  <2>2. Stage = "undoing" /\ Stage' = "over"
    BY <2>1, StageOf, StageOfNext
  <2>3. reversed' \in {0, reported}
    BY <1>7 DEF Reverse
  <2>4. reversed' >= 0 /\ reversed' <= Believed
    BY <1>2, <2>3
  <2> QED
    BY <1>1, <2>1, <2>2, <2>4 DEF Ledger!Next, Ledger!Undo
<1>8. CASE Raise
  <2>1. step = "raise" /\ step' = "end" /\ hedged' = hedged /\ reversed' = reversed
    BY <1>8 DEF Raise, Goto
  <2>2. Stage' = Stage
    BY <2>1, StageOf, StageOfNext
  <2> QED
    BY <1>1, <2>1, <2>2 DEF Ledger!vars
<1> QED
  BY <1>3, <1>4, <1>5, <1>6, <1>7, <1>8 DEF Run

(* Every run implements the ledger: at most one hedge, then at most one    *)
(* reversal, neither for more than Bybit had executed by then.             *)
THEOREM ImplementsLedger == Spec => KeepsLedger
<1>1. ArbInv /\ [Next]_vars => [Ledger!Next]_(Ledger!vars)
  <2> SUFFICES ASSUME ArbInv, [Next]_vars PROVE [Ledger!Next]_(Ledger!vars)
    OBVIOUS
  <2>1. CASE UNCHANGED vars
    BY <2>1, LedgerMaker DEF vars
  <2>2. CASE Working
    BY <2>2, LedgerMaker DEF Working
  <2>3. CASE LateExchange
    BY <2>3, LedgerMaker DEF LateExchange, MakerNext
  <2>4. CASE Run
    BY <2>4, LedgerRun
  <2> QED
    BY <2>1, <2>2, <2>3, <2>4 DEF Next
<1>2. Spec => Ledger!Init /\ [][Ledger!Next]_(Ledger!vars)
  BY <1>1, LedgerInit, ArbAlways, PTL DEF Spec
<1> QED
  BY <1>2 DEF KeepsLedger, Ledger!Spec

-----------------------------------------------------------------------------
(***************************************************************************)
(* The end of a run.                                                       *)
(***************************************************************************)

(* An upper bound of the steps a run still takes.                          *)
StepsLeft ==
  CASE step = "preflight" -> 9 * MaxTurns + 18
    [] step = "maker" -> CallsLeft + 4
    [] step = "hedge" -> 3
    [] step = "reverse" -> 2
    [] step = "raise" -> 1
    [] step = "end" -> 0

LEMMA StepsAre ==
  /\ step = "preflight" => StepsLeft = 9 * MaxTurns + 18
  /\ step = "maker" => StepsLeft = CallsLeft + 4
  /\ step = "hedge" => StepsLeft = 3
  /\ step = "reverse" => StepsLeft = 2
  /\ step = "raise" => StepsLeft = 1
  /\ step = "end" => StepsLeft = 0
BY DEF StepsLeft

LEMMA StepsAreNext ==
  /\ step' = "preflight" => StepsLeft' = 9 * MaxTurns + 18
  /\ step' = "maker" => StepsLeft' = CallsLeft' + 4
  /\ step' = "hedge" => StepsLeft' = 3
  /\ step' = "reverse" => StepsLeft' = 2
  /\ step' = "raise" => StepsLeft' = 1
  /\ step' = "end" => StepsLeft' = 0
BY DEF StepsLeft

LEMMA StepsBounded == ArbInv => StepsLeft \in 0 .. 9 * MaxTurns + 18
<1> SUFFICES ASSUME ArbInv
             PROVE  StepsLeft \in 0 .. 9 * MaxTurns + 18
  OBVIOUS
<1>1. CallsLeft \in 0 .. 9 * MaxTurns + 13
  BY MakerInvImplies, CallsBounded DEF ArbInv
<1>2. step \in Steps
  BY DEF ArbInv, TypeOK
<1> QED
  BY <1>1, <1>2, StepsAre, MakerAssumption DEF Steps

LEMMA CallsBoundedNext == MakerInv' => (CallsLeft \in 0 .. 9 * MaxTurns + 13)'
<1>1. MakerInv => CallsLeft \in 0 .. 9 * MaxTurns + 13
  BY MakerInvImplies, CallsBounded
<1> QED
  BY <1>1, PTL

LEMMA StepsBoundedNext == ArbInv' => (StepsLeft \in 0 .. 9 * MaxTurns + 18)'
BY StepsBounded, PTL

LEMMA LessShifted ==
  ASSUME NEW m \in Int, NEW n \in Int, m < n
  PROVE  m + 4 < n + 4
OBVIOUS

LEMMA StepsShrink == ArbInv /\ Executor => StepsLeft' < StepsLeft
<1> SUFFICES ASSUME ArbInv, Executor
             PROVE  StepsLeft' < StepsLeft
  OBVIOUS
<1> USE StepsAre, StepsAreNext
<1>1. CallsLeft \in 0 .. 9 * MaxTurns + 13 /\ MaxTurns \in Nat
  BY MakerInvImplies, CallsBounded, MakerAssumption DEF ArbInv
<1>2. CASE step = "maker" /\ Engine /\ UNCHANGED arbVars
  <2>1. CallsLeft' < CallsLeft
    BY <1>2, MakerInvImplies, CallsShrink DEF ArbInv
  <2>2. CallsLeft' \in Int
    <3>1. MakerInv'
      BY <1>2, EngineKeeps DEF ArbInv
    <3> QED
      BY <3>1, CallsBoundedNext
  <2>3. StepsLeft = CallsLeft + 4 /\ StepsLeft' = CallsLeft' + 4
    BY <1>2 DEF arbVars
  <2>4. CallsLeft \in Int
    BY <1>1
  <2>5. CallsLeft' + 4 < CallsLeft + 4
    BY <2>1, <2>2, <2>4, LessShifted
  <2> QED
    BY <2>3, <2>5
<1>3. CASE Preflight
  <2>1. step = "preflight" /\ UNCHANGED makerVars /\ step' \in {"maker", "end"}
    BY <1>3 DEF Preflight, Goto
  <2>2. CallsLeft' = CallsLeft
    BY <2>1 DEF CallsLeft, PathLeft, makerVars
  <2> QED
    BY <1>1, <2>1, <2>2
<1>4. CASE Aborted \/ Evaluate
  <2>1. step = "maker" /\ step' \in {"hedge", "reverse", "end"}
    BY <1>4 DEF Aborted, Evaluate, Goto
  <2> QED
    BY <1>1, <2>1
<1>5. CASE Hedge
  <2>1. step = "hedge" /\ step' \in {"end", "reverse"}
    BY <1>5 DEF Hedge, Goto
  <2> QED
    BY <2>1
<1>6. CASE Reverse \/ Raise
  <2>1. \/ step = "reverse" /\ step' \in {"end", "raise"}
        \/ step = "raise" /\ step' = "end"
    BY <1>6 DEF Reverse, Raise, Goto
  <2> QED
    BY <2>1
<1> QED
  BY <1>2, <1>3, <1>4, <1>5, <1>6 DEF Executor, Run

LEMMA StepsKept == Exchange /\ UNCHANGED arbVars => StepsLeft' = StepsLeft
BY CallsKept DEF StepsLeft, arbVars

(* Every step of a run brings its end nearer, whatever Bybit and Lighter   *)
(* answer, and late fills put nothing off: what is behind RunEnds, for any *)
(* number of turns.                                                        *)
EveryStepCounts ==
  /\ [](StepsLeft \in 0 .. 9 * MaxTurns + 18)
  /\ [][Executor => StepsLeft' < StepsLeft]_vars
  /\ [][StepsLeft' <= StepsLeft]_vars
THEOREM RunsOut == Spec => EveryStepCounts
<1>1. ArbInv /\ [Next]_vars => (Executor => StepsLeft' < StepsLeft)
  BY StepsShrink
<1>2. ArbInv /\ Next => StepsLeft' <= StepsLeft
  <2> SUFFICES ASSUME ArbInv, Next
               PROVE  StepsLeft' <= StepsLeft
    OBVIOUS
  <2>1. StepsLeft \in Int
    BY StepsBounded
  <2>2. CASE Executor
    <3>1. StepsLeft' \in Int
      BY ArbStep, StepsBoundedNext
    <3> QED
      BY <2>1, <2>2, <3>1, StepsShrink
  <2>3. CASE Exchange /\ UNCHANGED arbVars
    BY <2>1, <2>3, StepsKept
  <2> QED
    BY <2>2, <2>3 DEF Next, Working, LateExchange, Executor, MakerNext
<1> QED
  BY <1>1, <1>2, StepsBounded, ArbAlways, PTL DEF Spec, EveryStepCounts

=============================================================================
