------------------------- MODULE OrderManagerProofs -------------------------
(***************************************************************************)
(* Proofs about OrderManager, for every set of orders, assignment of       *)
(* symbols, size and bound.                                                *)
(*                                                                         *)
(* The invariant relates three views of an order: what the engine believes *)
(* (status), what was written down (savedStatus) and what the exchange     *)
(* holds (xstate).  Belief and store may differ, since a save may fail,    *)
(* so each of them has to be justified by the exchange, or, for a CANCELED *)
(* order, by the answer of a batch cancel (presumed).  Reports travel      *)
(* between them and may be arbitrarily old, so they are only required to   *)
(* be facts that cannot become false: a filled size that was reached, a    *)
(* final state that was reached.                                           *)
(***************************************************************************)
EXTENDS OrderManager, TLAPS

\* What a gateway or stream report can say.
Reported == {"OPEN", "PARTIALLY_FILLED", "FILLED", "CANCELED", "PARTIALLY_CANCELED",
             "REJECTED", "UNKNOWN"}

\* Statuses that are only reached once the exchange holds the order.
Confirmed == Statuses \ {"CREATED", "SUBMITTING", "UNKNOWN"}

\* A report is a fact about the exchange that stays true.
Truthful(r) ==
    /\ r.status \in Reported
    /\ xstate[r.id] # "none"
    /\ r.filled <= xfilled[r.id]
    /\ r.status \in Terminal => xstate[r.id] \in XFinal

StreamTruthful == \A k \in 1..Len(stream) : Truthful(stream[k])
AnswerTruthful == \A r \in call.answer : Truthful(r)

\* An own request on the network has not reached the exchange.
PlacingPending == \A i \in placing : xstate[i] = "none"

\* What may be noted of order i, in memory or in the store.
Sound(i, s) ==
    /\ s \in Confirmed => xstate[i] # "none"
    /\ s \in Terminal => \/ xstate[i] \in XFinal
                         \/ i \in presumed /\ s = "CANCELED"
    /\ i \in placing => s \in {"SUBMITTING", "UNKNOWN"}
    /\ i \in Own /\ xstate[i] # "none" => s \notin {NoRecord, "CREATED"}

NotesSound == \A i \in Ids : Sound(i, status[i]) /\ Sound(i, savedStatus[i])

\* The store knows no order memory does not know, and of a terminal status it
\* says what memory says.
StoreLags ==
    \A i \in Ids : /\ status[i] = NoRecord => savedStatus[i] = NoRecord
                   /\ savedStatus[i] \in Terminal => status[i] = savedStatus[i]

PresumedCanceled == presumed \subseteq Ids /\ \A i \in presumed : status[i] = "CANCELED"

\* What the call in flight knows about the orders it is for.
CallTracks ==
    /\ call.op = "submit" => \A i \in call.served : xstate[i] # "none"
    /\ call.op = "cancel" => \A i \in call.ids : xstate[i] # "none"
    /\ call.op = "got_open" => \A r \in call.answer : r.status \notin Terminal
    /\ call.op \in {"ask_order", "got_order"} =>
          /\ call.ids \cap presumed = {}
          /\ \A r \in call.answer : r.id \in call.ids

\* The records and the store, together with what justifies them.
RecordsOK ==
    /\ status \in [Ids -> Statuses \cup {NoRecord}]
    /\ savedStatus \in [Ids -> Statuses \cup {NoRecord}]
    /\ filled \in [Ids -> 0..Size] /\ savedFilled \in [Ids -> 0..Size]
    /\ booked \in [Ids -> Nat]
    /\ FillsAreReal
    /\ PlacingPending
    /\ NotesSound
    /\ StoreLags
    /\ PresumedCanceled

\* An order that is not there has not traded, one that is live has not traded
\* in full.
TradedSizes ==
    /\ \A i \in Ids : xstate[i] = "none" => xfilled[i] = 0
    /\ \A i \in Ids : xstate[i] \in XLive => xfilled[i] < Size

\* The exchange, the network and what travels on it.
WorldOK ==
    /\ placing \subseteq Own /\ canceling \subseteq Ids
    /\ xstate \in [Ids -> XStates] /\ xfilled \in [Ids -> 0..Size]
    /\ TradedSizes
    /\ connected \in BOOLEAN
    /\ stream \in Seq(Report) /\ StreamTruthful

\* Why a call may have raised.
Causes == {"submit", "cancel"} \X {"refused", "unsaved"}

\* The call in flight and the marks of this process.
CallOK ==
    /\ call \in CallType
    /\ AnswerTruthful
    /\ CallTracks
    /\ raised \subseteq Causes
    /\ reconciled \subseteq Ids
    /\ kills \in Nat

IInv == RecordsOK /\ WorldOK /\ CallOK

\* Noting status s with filled size n for order i keeps RecordsOK in a step that
\* leaves the exchange alone.
Justified(i, s, n) ==
    /\ s \in Statuses
    /\ n \in 0..Size /\ filled[i] <= n /\ n <= xfilled[i]
    /\ s = "CREATED" => status[i] = NoRecord
    /\ s \in Confirmed => xstate[i] # "none"
    /\ s \in Terminal => xstate[i] \in XFinal \/ (i \in presumed' /\ s = "CANCELED")
    /\ i \in placing => s \in {"SUBMITTING", "UNKNOWN"}

\* The orders whose status a loop changed in memory.
Moved(done, bad, how) == IF how = "unsaved" THEN done \cup bad ELSE done

\* A loop in which an order may have been saved as CREATED before it moved on.
Loop(todo, new, saved, size, done, bad, how) ==
    /\ LoopEnds(todo, new, done, bad, how)
    /\ Saves(done, saved, size)
    /\ Remembers(done, bad, new, size, how)
    /\ \A i \in done : saved[i] = new[i] \/ (saved[i] = "CREATED" /\ status[i] = NoRecord)

-----------------------------------------------------------------------------
(* The state machine.                                                      *)

\* Nothing but itself follows a terminal status.
LEMMA TerminalStays ==
    ASSUME NEW c \in Terminal, NEW n, CanTransition(c, n)
    PROVE  n = c
  BY DEF CanTransition

\* CANCELING is only entered from a status the exchange confirmed.
LEMMA CancelingFromConfirmed ==
    ASSUME NEW c \in Statuses, CanTransition(c, "CANCELING")
    PROVE  c \in Confirmed
  BY SMT DEF CanTransition, ValidNext, Statuses, Terminal, NonTerminal, Confirmed

\* Reports of the gateway and of the stream only use Reported, and they call an
\* order over only when it is.
LEMMA ReportsAreTrue ==
    ASSUME NEW x \in XStates
    PROVE  /\ RestStatus(x) \in Reported /\ StreamStatus(x) \in Reported
           /\ RestStatus(x) \in Terminal => x \in XFinal
           /\ StreamStatus(x) \in Terminal => x \in XFinal
  BY SMT DEF RestStatus, StreamStatus, Reported, Terminal, XStates, XLive, XFinal

LEMMA NotARecord == NoRecord \notin Statuses /\ "CREATED" \notin Terminal /\ "CANCELED" \in Terminal
  BY DEF NoRecord, Statuses, Terminal, NonTerminal

-----------------------------------------------------------------------------
(* Initially.                                                              *)

LEMMA InitIInv == Init => IInv
<1> SUFFICES ASSUME Init PROVE IInv
  OBVIOUS
<1> USE SizeAssumption
<1>1. RecordsOK
  <2>1. \A i \in Ids : /\ status[i] = NoRecord /\ savedStatus[i] = NoRecord
                       /\ xstate[i] = "none" /\ i \notin placing
    BY DEF Init
  <2>2. NotesSound /\ StoreLags
    BY <2>1, NotARecord DEF NotesSound, Sound, StoreLags, Confirmed, NoRecord, Terminal
  <2>3. FillsAreReal /\ PlacingPending /\ PresumedCanceled
    BY DEF Init, FillsAreReal, PlacingPending, PresumedCanceled
  <2> QED BY <2>2, <2>3 DEF Init, RecordsOK
<1>2. WorldOK
  <2>1. stream \in Seq(Report) /\ Len(stream) = 0
    BY DEF Init
  <2>2. StreamTruthful
    BY <2>1 DEF StreamTruthful
  <2>3. xfilled \in [Ids -> 0..Size] /\ xstate \in [Ids -> XStates]
    BY DEF Init, XStates
  <2>4. TradedSizes
    BY DEF Init, TradedSizes, XLive
  <2> QED BY <2>1, <2>2, <2>3, <2>4 DEF Init, WorldOK
<1>3. CallOK
  BY DEF Init, CallOK, AnswerTruthful, CallTracks, Idle, NewCall, CallType, Ops
<1> QED
  BY <1>1, <1>2, <1>3 DEF IInv

-----------------------------------------------------------------------------
(* One loop over orders.                                                   *)

\* Order by order, what a loop does to memory and to the store.
LEMMA LoopMeans ==
    ASSUME NEW todo, NEW new, NEW saved, NEW size, NEW done, NEW bad, NEW how,
           Loop(todo, new, saved, size, done, bad, how), NEW i \in Ids
    PROVE  /\ savedStatus'[i] = IF i \in done THEN saved[i] ELSE savedStatus[i]
           /\ savedFilled'[i] = IF i \in done THEN size[i] ELSE savedFilled[i]
           /\ status'[i] = IF how = "killed" THEN savedStatus'[i]
                           ELSE IF i \in Moved(done, bad, how) THEN new[i] ELSE status[i]
           /\ filled'[i] = IF how = "killed" THEN savedFilled'[i]
                           ELSE IF i \in done \cup bad THEN size[i] ELSE filled[i]
           /\ i \in Moved(done, bad, how) => Accepts(i, new[i])
<1>1. LoopEnds(todo, new, done, bad, how)
  BY DEF Loop
<1>2. i \in Moved(done, bad, how) => Accepts(i, new[i])
  BY <1>1 DEF LoopEnds, Moved
<1>3. /\ savedStatus'[i] = IF i \in done THEN saved[i] ELSE savedStatus[i]
      /\ savedFilled'[i] = IF i \in done THEN size[i] ELSE savedFilled[i]
  BY DEF Loop, Saves, Updated
<1>4. /\ status'[i] = IF how = "killed" THEN savedStatus'[i]
                      ELSE IF i \in Moved(done, bad, how) THEN new[i] ELSE status[i]
      /\ filled'[i] = IF how = "killed" THEN savedFilled'[i]
                      ELSE IF i \in done \cup bad THEN size[i] ELSE filled[i]
  BY DEF Loop, Remembers, Updated, Moved
<1> QED
  BY <1>2, <1>3, <1>4

\* A terminal status that is saved is left alone by every loop; one that is only
\* in memory is lost at most by a death.
LEMMA LoopKeepsTerminal ==
    ASSUME StoreLags, NEW todo, NEW new, NEW saved, NEW size, NEW done, NEW bad, NEW how,
           Loop(todo, new, saved, size, done, bad, how), NEW i \in Ids
    PROVE  /\ savedStatus[i] \in Terminal => savedStatus'[i] = savedStatus[i] /\ status'[i] = savedStatus[i]
           /\ status[i] \in Terminal /\ how # "killed" => status'[i] = status[i]
<1>1. /\ savedStatus'[i] = IF i \in done THEN saved[i] ELSE savedStatus[i]
      /\ status'[i] = IF how = "killed" THEN savedStatus'[i]
                      ELSE IF i \in Moved(done, bad, how) THEN new[i] ELSE status[i]
      /\ i \in Moved(done, bad, how) => Accepts(i, new[i])
      /\ i \in done => i \in Moved(done, bad, how)
      /\ i \in done => saved[i] = new[i] \/ (saved[i] = "CREATED" /\ status[i] = NoRecord)
  BY LoopMeans DEF Moved, Loop
<1>2. status[i] \in Terminal => status[i] # NoRecord
  BY NotARecord DEF Statuses
<1>3. status[i] \in Terminal /\ i \in Moved(done, bad, how) => new[i] = status[i]
  BY <1>1, <1>2, TerminalStays DEF Accepts
<1>4. savedStatus[i] \in Terminal => status[i] = savedStatus[i]
  BY DEF StoreLags
<1> QED
  BY <1>1, <1>2, <1>3, <1>4

\* A loop whose moves are justified keeps the records right, however it ends.
LEMMA LoopKeepsRecords ==
    ASSUME RecordsOK, WorldOK, NEW todo,
           NEW new, NEW saved, NEW size, NEW done \in SUBSET Ids, NEW bad \in SUBSET Ids, NEW how,
           Loop(todo, new, saved, size, done, bad, how),
           UNCHANGED exchange,
           \A i \in done : Justified(i, saved[i], size[i]),
           \A i \in Moved(done, bad, how) : Justified(i, new[i], size[i]),
           \A i \in bad : size[i] \in 0..Size /\ filled[i] <= size[i] /\ size[i] <= xfilled[i],
           \A i \in placing' \ placing : /\ i \in done /\ xstate[i] = "none"
                                         /\ new[i] = "SUBMITTING" /\ saved[i] = "SUBMITTING",
           booked' \in [Ids -> Nat],
           \A i \in Ids : booked'[i] <= savedFilled'[i],
           presumed' \subseteq Ids,
           \A i \in presumed' : status'[i] = "CANCELED",
           \A i \in presumed : status'[i] = "CANCELED" => i \in presumed' \/ xstate[i] \in XFinal
    PROVE  RecordsOK'
<1>1. ASSUME NEW i \in Ids
      PROVE  /\ savedStatus'[i] = IF i \in done THEN saved[i] ELSE savedStatus[i]
             /\ savedFilled'[i] = IF i \in done THEN size[i] ELSE savedFilled[i]
             /\ status'[i] = IF how = "killed" THEN savedStatus'[i]
                             ELSE IF i \in Moved(done, bad, how) THEN new[i] ELSE status[i]
             /\ filled'[i] = IF how = "killed" THEN savedFilled'[i]
                             ELSE IF i \in done \cup bad THEN size[i] ELSE filled[i]
  BY LoopMeans
<1>2. \A i \in done : saved[i] = new[i] \/ (saved[i] = "CREATED" /\ status[i] = NoRecord)
  BY DEF Loop
<1>3. ASSUME NEW i \in Ids
      PROVE  status'[i] \in Statuses \cup {NoRecord} /\ savedStatus'[i] \in Statuses \cup {NoRecord}
  <2>1. /\ i \in done => saved[i] \in Statuses
        /\ i \in Moved(done, bad, how) => new[i] \in Statuses
    BY DEF Justified
  <2> QED BY <2>1, <1>1 DEF RecordsOK
<1>4. status' \in [Ids -> Statuses \cup {NoRecord}] /\ savedStatus' \in [Ids -> Statuses \cup {NoRecord}]
  <2>1. status' = [i \in Ids |-> status'[i]] /\ savedStatus' = [i \in Ids |-> savedStatus'[i]]
    BY DEF Loop, Saves, Remembers, Updated
  <2> QED BY <2>1, <1>3
<1>5. /\ savedFilled' \in [Ids -> 0..Size] /\ filled' \in [Ids -> 0..Size]
  <2>1. /\ savedFilled' = [i \in Ids |-> savedFilled'[i]]
        /\ filled' = [i \in Ids |-> filled'[i]]
    BY DEF Loop, Saves, Remembers, Updated
  <2>2. \A i \in Ids : savedFilled'[i] \in 0..Size /\ filled'[i] \in 0..Size
    BY <1>1 DEF RecordsOK, Justified
  <2> QED BY <2>1, <2>2
<1>6. FillsAreReal'
  <2> SUFFICES ASSUME NEW i \in Ids
               PROVE /\ booked'[i] <= savedFilled'[i]
                     /\ savedFilled'[i] <= filled'[i]
                     /\ filled'[i] <= xfilled[i]
    BY DEF FillsAreReal, exchange
  <2>1. /\ filled[i] \in Nat /\ savedFilled[i] \in Nat /\ xfilled[i] \in Nat
        /\ savedFilled[i] <= filled[i] /\ filled[i] <= xfilled[i]
    BY SizeAssumption DEF RecordsOK, WorldOK, FillsAreReal
  <2>2. i \in done \cup bad => size[i] \in Nat /\ filled[i] <= size[i] /\ size[i] <= xfilled[i]
    BY SizeAssumption DEF Justified
  <2> QED BY <2>1, <2>2, <1>1
<1>7. PlacingPending'
  BY DEF PlacingPending, RecordsOK, exchange
<1>8. StoreLags'
  <2> SUFFICES ASSUME NEW i \in Ids
               PROVE  /\ status'[i] = NoRecord => savedStatus'[i] = NoRecord
                      /\ savedStatus'[i] \in Terminal => status'[i] = savedStatus'[i]
    BY DEF StoreLags
  <2>1. StoreLags
    BY DEF RecordsOK
  <2>2. CASE how = "killed"
    BY <2>2, <1>1
  <2>3. CASE how # "killed" /\ i \in done
    <3>1. i \in Moved(done, bad, how)
      BY <2>3 DEF Moved
    <3>2. status'[i] = new[i] /\ savedStatus'[i] = saved[i] /\ new[i] \in Statuses
      BY <2>3, <3>1, <1>1 DEF Justified
    <3> QED BY <2>3, <3>2, <1>2, NotARecord
  <2>4. CASE how # "killed" /\ i \notin done
    <3>1. savedStatus'[i] = savedStatus[i]
      BY <2>4, <1>1
    <3>2. savedStatus[i] \in Terminal => status'[i] = savedStatus[i]
      BY <2>1, LoopKeepsTerminal
    <3>3. status'[i] = NoRecord => status[i] = NoRecord
      BY <2>4, <1>1, NotARecord DEF Justified
    <3> QED BY <2>1, <3>1, <3>2, <3>3 DEF StoreLags
  <2> QED BY <2>2, <2>3, <2>4
<1>9. NotesSound'
  <2> SUFFICES ASSUME NEW i \in Ids
               PROVE  Sound(i, status[i])' /\ Sound(i, savedStatus[i])'
    BY DEF NotesSound
  <2>1. Sound(i, status[i]) /\ Sound(i, savedStatus[i])
    BY DEF RecordsOK, NotesSound
  <2>2. i \in placing' \ placing => /\ i \in done /\ xstate[i] = "none"
                                    /\ new[i] = "SUBMITTING" /\ saved[i] = "SUBMITTING"
    OBVIOUS
  <2>3. i \in Own /\ xstate[i] # "none" => status[i] # NoRecord
    BY <2>1 DEF Sound
  <2>4. ASSUME NEW s, Justified(i, s, size[i]), i \in placing' \ placing => s = "SUBMITTING"
        PROVE  /\ s \in Confirmed => xstate[i] # "none"
               /\ s \in Terminal => xstate[i] \in XFinal \/ (i \in presumed' /\ s = "CANCELED")
               /\ i \in placing' => s \in {"SUBMITTING", "UNKNOWN"}
               /\ i \in Own /\ xstate[i] # "none" => s \notin {NoRecord, "CREATED"}
    BY <2>3, <2>4, NotARecord DEF Justified
  <2>5. ASSUME NEW s, Sound(i, s), s \in Terminal => status'[i] = s, i \in placing' => i \in placing
        PROVE  /\ s \in Confirmed => xstate[i] # "none"
               /\ s \in Terminal => xstate[i] \in XFinal \/ (i \in presumed' /\ s = "CANCELED")
               /\ i \in placing' => s \in {"SUBMITTING", "UNKNOWN"}
               /\ i \in Own /\ xstate[i] # "none" => s \notin {NoRecord, "CREATED"}
    BY <2>5 DEF Sound
  <2>6. Sound(i, savedStatus[i])'
    <3>1. CASE i \in done
      <4>1. savedStatus'[i] = saved[i] /\ Justified(i, saved[i], size[i])
        BY <3>1, <1>1
      <4> QED BY <2>2, <2>4, <4>1 DEF Sound, exchange
    <3>2. CASE i \notin done
      <4>1. savedStatus'[i] = savedStatus[i] /\ (i \in placing' => i \in placing)
        BY <3>2, <1>1, <2>2
      <4>2. savedStatus[i] \in Terminal => status'[i] = savedStatus[i]
        BY LoopKeepsTerminal DEF RecordsOK
      <4> QED BY <2>1, <2>5, <4>1, <4>2 DEF Sound, exchange
    <3> QED BY <3>1, <3>2
  <2>7. Sound(i, status[i])'
    <3>1. CASE how = "killed"
      BY <2>6, <3>1, <1>1 DEF Sound
    <3>2. CASE how # "killed" /\ i \in Moved(done, bad, how)
      <4>1. status'[i] = new[i] /\ Justified(i, new[i], size[i])
        BY <3>2, <1>1
      <4> QED BY <2>2, <2>4, <4>1 DEF Sound, exchange
    <3>3. CASE how # "killed" /\ i \notin Moved(done, bad, how)
      <4>1. status'[i] = status[i] /\ i \notin done
        BY <3>3, <1>1 DEF Moved
      <4> QED BY <2>1, <2>2, <2>5, <4>1 DEF Sound, exchange
    <3> QED BY <3>1, <3>2, <3>3
  <2> QED BY <2>6, <2>7
<1>10. PresumedCanceled'
  BY DEF PresumedCanceled
<1> QED
  BY <1>4, <1>5, <1>6, <1>7, <1>8, <1>9, <1>10 DEF RecordsOK

\* How a call ends: nothing of the world moves but the link, and the next call
\* starts with nothing served and nothing answered.
LEMMA EndsKeepsWorld ==
    ASSUME WorldOK, CallOK, NEW how \in Outcomes, NEW op, NEW next,
           Ends(how, op, next), UNCHANGED exchange,
           placing' \subseteq Own, canceling' \subseteq Ids,
           next \in CallType, next.answer = {}, next.served = {},
           next.op \in {"idle", "submit", "cancel"},
           next.op = "cancel" => \A i \in next.ids : xstate[i] # "none"
    PROVE  WorldOK' /\ CallOK'
<1>1. WorldOK'
  <2>1. CASE how = "killed"
    <3>1. stream' = <<>> /\ connected' = FALSE
      BY <2>1 DEF Ends
    <3>2. stream' \in Seq(Report) /\ Len(stream') = 0
      BY <3>1
    <3>3. StreamTruthful'
      BY <3>2 DEF StreamTruthful
    <3> QED BY <3>1, <3>2, <3>3 DEF WorldOK, TradedSizes, exchange
  <2>2. CASE how # "killed"
    <3>1. UNCHANGED <<connected, stream>>
      BY <2>2 DEF Ends, link
    <3>2. StreamTruthful'
      BY <3>1 DEF WorldOK, StreamTruthful, Truthful, exchange
    <3> QED BY <3>1, <3>2 DEF WorldOK, TradedSizes, exchange
  <2> QED BY <2>1, <2>2
<1>2. call' = Idle \/ call' = next
  BY DEF Ends
<1>3. /\ call' \in CallType
      /\ call'.answer = {} /\ call'.served = {}
      /\ call'.op \in {"idle", "submit", "cancel"}
      /\ call'.op = "cancel" => \A i \in call'.ids : xstate[i] # "none"
  BY <1>2 DEF Idle, NewCall, CallType, Ops
<1>4. AnswerTruthful' /\ CallTracks'
  BY <1>3 DEF AnswerTruthful, CallTracks, exchange
<1>5. /\ raised' \subseteq Causes
      /\ reconciled' \subseteq Ids
      /\ kills' \in Nat
  <2>1. raised' \subseteq Causes
    <3>1. how \notin {"returned", "killed"} => how \in {"refused", "unsaved"}
      BY DEF Outcomes
    <3>2. op \in {"submit", "cancel"} /\ how \in {"refused", "unsaved"} => <<op, how>> \in Causes
      BY DEF Causes
    <3>3. \/ raised' = {} \/ raised' = raised
          \/ /\ how \notin {"returned", "killed"} /\ op \in {"submit", "cancel"}
             /\ raised' = raised \cup {<<op, how>>}
      BY DEF Ends
    <3> QED BY <3>1, <3>2, <3>3 DEF CallOK
  <2>2. reconciled' \subseteq Ids
    BY DEF Ends, CallOK, CallType
  <2>3. kills' \in Nat
    BY DEF Ends, CallOK
  <2> QED BY <2>1, <2>2, <2>3
<1> QED
  BY <1>1, <1>3, <1>4, <1>5 DEF CallOK

\* What the end of a call does to the presumed orders.
LEMMA EndsPresumes ==
    ASSUME RecordsOK, NEW how, NEW op, NEW next, Ends(how, op, next)
    PROVE  /\ presumed' \subseteq Ids
           /\ \A i \in presumed' : status'[i] = "CANCELED"
           /\ \A i \in presumed : status'[i] = "CANCELED" => i \in presumed' \/ xstate[i] \in XFinal
  BY DEF Ends, RecordsOK, PresumedCanceled

-----------------------------------------------------------------------------
(* The engine's calls.                                                     *)

LEMMA IdleIsCall == Idle \in CallType /\ Idle.answer = {} /\ Idle.served = {} /\ Idle.op = "idle"
  BY DEF Idle, NewCall, CallType, Ops

\* A loop that writes what it decides is a Loop.
LEMMA WritesIsLoop ==
    ASSUME NEW todo, NEW new, NEW size, NEW done, NEW bad, NEW how,
           LoopEnds(todo, new, done, bad, how), Writes(done, bad, new, size, how)
    PROVE  Loop(todo, new, new, size, done, bad, how)
  BY DEF Writes, Loop

\* Orders are recorded as SUBMITTING, in memory and in the store, before their
\* requests go out; a loop that stops may leave one as CREATED.
LEMMA SubmitBeginInv ==
    ASSUME IInv, NEW S \in SUBSET {i \in Own : status[i] = NoRecord}, NEW how \in Outcomes,
           NEW done \in SUBSET S, NEW bad \in SUBSET S, NEW half \in SUBSET done,
           NEW begun \in SUBSET half, SubmitBegin(S, how, done, bad, half, begun)
    PROVE  IInv'
<1> DEFINE saved == [i \in Ids |-> IF i \in half THEN "CREATED" ELSE "SUBMITTING"]
           new == [i \in Ids |-> IF i \in bad \cup (half \ begun) THEN "CREATED" ELSE "SUBMITTING"]
           size == [i \in Ids |-> 0]
           next == NewCall("submit", S)
<1>0. RecordsOK /\ WorldOK /\ CallOK
  BY DEF IInv
<1>1. /\ how \in {"returned", "unsaved", "killed"}
      /\ how = "returned" => half = {}
      /\ begun # {} => how = "unsaved"
      /\ LoopEnds(S, new, done, bad, how)
      /\ Saves(done, saved, size)
      /\ Remembers(done, bad, new, size, how)
      /\ placing' = IF how = "returned" THEN placing \cup S ELSE placing
      /\ Ends(how, "submit", next)
      /\ UNCHANGED <<canceling, exchange, booked>>
  BY DEF SubmitBegin
<1>2. ASSUME NEW i \in S
      PROVE  /\ i \in Ids /\ i \in Own /\ status[i] = NoRecord
             /\ xstate[i] = "none" /\ xfilled[i] = 0 /\ filled[i] = 0 /\ i \notin placing
             /\ new[i] \in {"CREATED", "SUBMITTING"} /\ saved[i] \in {"CREATED", "SUBMITTING"}
             /\ size[i] = 0
  <2>1. i \in Ids /\ i \in Own /\ status[i] = NoRecord /\ Sound(i, status[i])
    BY <1>0 DEF Ids, RecordsOK, NotesSound
  <2>2. xstate[i] = "none" /\ i \notin placing
    BY <2>1 DEF Sound, NoRecord
  <2>3. xfilled[i] = 0
    BY <1>0, <2>1, <2>2 DEF WorldOK, TradedSizes
  <2>4. filled[i] \in 0..Size /\ filled[i] <= 0
    BY <1>0, <2>1, <2>3 DEF RecordsOK, FillsAreReal
  <2>5. filled[i] = 0
    BY <2>4, SizeAssumption
  <2>6. /\ new[i] \in {"CREATED", "SUBMITTING"} /\ saved[i] \in {"CREATED", "SUBMITTING"}
        /\ size[i] = 0
    BY <2>1
  <2> QED BY <2>1, <2>2, <2>3, <2>5, <2>6
<1>3. \A i \in S : Justified(i, new[i], size[i]) /\ Justified(i, saved[i], size[i])
  <2> SUFFICES ASSUME NEW i \in S, NEW s \in {"CREATED", "SUBMITTING"}
               PROVE  Justified(i, s, 0)
    BY <1>2
  <2>1. 0 \in 0..Size /\ 0 <= 0
    BY SizeAssumption
  <2> QED BY <1>2, <2>1 DEF Justified, Statuses, NonTerminal, Terminal, Confirmed
<1>4. Loop(S, new, saved, size, done, bad, how)
  <2>1. ASSUME NEW i \in done
        PROVE  saved[i] = new[i] \/ (saved[i] = "CREATED" /\ status[i] = NoRecord)
    <3>1. i \in Ids /\ status[i] = NoRecord
      BY <1>2
    <3>2. CASE i \in half
      BY <3>1, <3>2
    <3>3. CASE i \notin half
      <4>1. i \notin bad
        BY <1>1, <3>3 DEF LoopEnds
      <4> QED BY <3>1, <3>3, <4>1
    <3> QED BY <3>2, <3>3
  <2> HIDE DEF new, saved, size
  <2> QED BY <1>1, <2>1 DEF Loop
<1>5. ASSUME NEW i \in placing' \ placing
      PROVE  /\ i \in done /\ xstate[i] = "none"
             /\ new[i] = "SUBMITTING" /\ saved[i] = "SUBMITTING"
  <2>1. how = "returned" /\ i \in S
    BY <1>1
  <2>2. half = {} /\ done = S /\ bad = {}
    BY <1>1, <2>1 DEF LoopEnds
  <2> QED BY <2>1, <2>2, <1>2
<1>6. booked' \in [Ids -> Nat] /\ \A i \in Ids : booked'[i] <= savedFilled'[i]
  <2> HIDE DEF new, saved
  <2>1. booked' = booked /\ booked \in [Ids -> Nat]
    BY <1>0, <1>1 DEF RecordsOK
  <2>2. ASSUME NEW i \in Ids PROVE booked'[i] <= savedFilled'[i]
    <3>1. savedFilled'[i] = IF i \in done THEN 0 ELSE savedFilled[i]
      BY <1>1 DEF Saves, Updated
    <3>2. /\ booked[i] \in Nat /\ savedFilled[i] \in Nat /\ filled[i] \in Nat
          /\ booked[i] <= savedFilled[i] /\ savedFilled[i] <= filled[i]
      BY <1>0, SizeAssumption DEF RecordsOK, FillsAreReal
    <3>3. i \in done => filled[i] = 0
      BY <1>2
    <3> QED BY <2>1, <3>1, <3>2, <3>3
  <2> QED BY <2>1, <2>2
<1>7. RecordsOK'
  <2>1. /\ presumed' \subseteq Ids
        /\ \A i \in presumed' : status'[i] = "CANCELED"
        /\ \A i \in presumed : status'[i] = "CANCELED" => i \in presumed' \/ xstate[i] \in XFinal
    BY <1>0, <1>1, EndsPresumes
  <2>2. /\ done \in SUBSET Ids /\ bad \in SUBSET Ids
        /\ \A i \in done : Justified(i, saved[i], size[i])
        /\ \A i \in Moved(done, bad, how) : Justified(i, new[i], size[i])
        /\ \A i \in bad : size[i] \in 0..Size /\ filled[i] <= size[i] /\ size[i] <= xfilled[i]
    <3> HIDE DEF new, saved, size, next
    <3>1. \A i \in bad : size[i] \in 0..Size /\ filled[i] <= size[i] /\ size[i] <= xfilled[i]
      BY <1>3 DEF Justified
    <3> QED BY <1>2, <1>3, <3>1 DEF Moved
  <2> HIDE DEF new, saved, size, next
  <2> QED BY <1>0, <1>1, <1>4, <1>5, <1>6, <2>1, <2>2, LoopKeepsRecords
<1>8. WorldOK' /\ CallOK'
  <2>1. next \in CallType /\ next.answer = {} /\ next.served = {} /\ next.op = "submit"
    BY <1>2 DEF NewCall, CallType, Ops
  <2>2. placing' \subseteq Own /\ canceling' \subseteq Ids
    BY <1>0, <1>1 DEF WorldOK
  <2> HIDE DEF next, new, saved, size
  <2> QED BY <1>0, <1>1, <2>1, <2>2, EndsKeepsWorld
<1> QED
  BY <1>7, <1>8 DEF IInv

\* A loop that sends no order: what it writes has to be justified, and what it
\* leaves as the next call has to be for orders the exchange holds.
LEMMA LoopStep ==
    ASSUME IInv, NEW todo,
           NEW new, NEW size, NEW done \in SUBSET Ids, NEW bad \in SUBSET Ids,
           NEW how \in Outcomes, NEW op, NEW next,
           LoopEnds(todo, new, done, bad, how), Writes(done, bad, new, size, how),
           Ends(how, op, next),
           UNCHANGED <<placing, exchange, booked>>, canceling' \subseteq Ids,
           \A i \in done \cup Moved(done, bad, how) : Justified(i, new[i], size[i]),
           \A i \in bad : size[i] \in 0..Size /\ filled[i] <= size[i] /\ size[i] <= xfilled[i],
           next \in CallType, next.answer = {}, next.served = {},
           next.op \in {"idle", "submit", "cancel"},
           next.op = "cancel" => \A i \in next.ids : xstate[i] # "none"
    PROVE  IInv'
<1>1. RecordsOK /\ WorldOK /\ CallOK
  BY DEF IInv
<1>2. ASSUME NEW i \in Ids
      PROVE  booked'[i] <= savedFilled'[i]
  <2>1. /\ booked[i] \in Nat /\ savedFilled[i] \in Nat /\ filled[i] \in Nat
        /\ booked[i] <= savedFilled[i] /\ savedFilled[i] <= filled[i]
    BY <1>1, SizeAssumption DEF RecordsOK, FillsAreReal
  <2>2. savedFilled'[i] = IF i \in done THEN size[i] ELSE savedFilled[i]
    BY DEF Writes, Saves, Updated
  <2>3. i \in done => size[i] \in Nat /\ filled[i] <= size[i]
    BY SizeAssumption DEF Justified
  <2> QED BY <2>1, <2>2, <2>3
<1>3. RecordsOK'
  <2>1. Loop(todo, new, new, size, done, bad, how)
    BY WritesIsLoop
  <2>2. /\ presumed' \subseteq Ids
        /\ \A i \in presumed' : status'[i] = "CANCELED"
        /\ \A i \in presumed : status'[i] = "CANCELED" => i \in presumed' \/ xstate[i] \in XFinal
    BY <1>1, EndsPresumes
  <2>3. booked' \in [Ids -> Nat]
    BY <1>1 DEF RecordsOK
  <2> QED BY <1>1, <1>2, <2>1, <2>2, <2>3, LoopKeepsRecords
<1>4. WorldOK' /\ CallOK'
  BY <1>1, EndsKeepsWorld DEF WorldOK
<1> QED
  BY <1>3, <1>4 DEF IInv

LEMMA FilledStays ==
    ASSUME IInv, NEW i \in Ids
    PROVE  /\ filled[i] \in 0..Size /\ filled[i] \in Nat /\ xfilled[i] \in Nat
           /\ filled[i] <= filled[i] /\ filled[i] <= xfilled[i]
  BY SizeAssumption DEF IInv, RecordsOK, WorldOK, FillsAreReal

\* OPEN is only said of an order whose request was served, and that one reached
\* the exchange, were it to be refused there.
LEMMA SubmitAnsweredInv ==
    ASSUME IInv, NEW acked \in SUBSET call.ids, NEW done \in SUBSET call.ids,
           NEW how \in Outcomes, SubmitAnswered(acked, done, how)
    PROVE  IInv'
<1> DEFINE new == [i \in Ids |-> IF i \in acked THEN AckTarget(TRUE, "OPEN")
                                 ELSE AckTarget(FALSE, "UNKNOWN")]
<1>1. PICK bad \in SUBSET call.ids :
         LoopEnds(call.ids, new, done, bad, how) /\ Writes(done, bad, new, filled, how)
  BY DEF SubmitAnswered
<1>2. /\ call.op = "submit" /\ acked \subseteq call.served
      /\ Ends(how, "submit", Idle)
      /\ UNCHANGED <<net, exchange, booked>>
  BY DEF SubmitAnswered
<1>3. call.ids \subseteq Ids /\ call.served \subseteq Ids
  BY DEF IInv, CallOK, CallType
<1>4. \A i \in acked : xstate[i] # "none"
  BY <1>2 DEF IInv, CallOK, CallTracks
<1>5. \A i \in Ids : Justified(i, new[i], filled[i])
  <2> SUFFICES ASSUME NEW i \in Ids PROVE Justified(i, new[i], filled[i])
    OBVIOUS
  <2>1. new[i] = IF i \in acked THEN "OPEN" ELSE "UNKNOWN"
    BY DEF AckTarget
  <2>2. i \in acked => i \notin placing
    BY <1>4 DEF IInv, RecordsOK, PlacingPending
  <2> HIDE DEF new
  <2> QED BY <2>1, <2>2, <1>4, FilledStays
        DEF Justified, Confirmed, Statuses, Terminal, NonTerminal
<1>6. /\ done \in SUBSET Ids /\ bad \in SUBSET Ids
      /\ \A i \in done \cup Moved(done, bad, how) : Justified(i, new[i], filled[i])
      /\ \A i \in bad : filled[i] \in 0..Size /\ filled[i] <= filled[i] /\ filled[i] <= xfilled[i]
  <2> HIDE DEF new
  <2> QED BY <1>3, <1>5, FilledStays DEF Moved
<1> HIDE DEF new
<1> QED
  BY <1>1, <1>2, <1>6, IdleIsCall, LoopStep DEF net, IInv, WorldOK

\* A record that may go to CANCELING is of an order the exchange holds.
LEMMA CancelBeginInv ==
    ASSUME IInv, NEW S \in SUBSET Ids, NEW done \in SUBSET Ids,
           NEW how \in Outcomes, CancelBegin(S, done, how)
    PROVE  IInv'
<1> DEFINE new == [i \in Ids |-> "CANCELING"]
           active == {i \in S : status[i] \in NonTerminal}
           next == IF active = {} THEN Idle ELSE NewCall("cancel", active)
<1>1. PICK bad \in SUBSET active :
         LoopEnds(active, new, done, bad, how) /\ Writes(done, bad, new, filled, how)
  BY DEF CancelBegin
<1>2. /\ done \subseteq active
      /\ canceling' = IF how = "returned" THEN canceling \cup active ELSE canceling
      /\ Ends(how, "cancel", next)
      /\ UNCHANGED <<placing, exchange, booked>>
  BY DEF CancelBegin
<1>3. ASSUME NEW i \in active, Accepts(i, new[i])
      PROVE  i \in Ids /\ xstate[i] # "none"
  <2>1. i \in Ids /\ status[i] \in NonTerminal
    BY <1>2
  <2>2. CanTransition(status[i], "CANCELING")
    BY <1>3, <2>1 DEF Accepts, NonTerminal, NoRecord
  <2>3. status[i] \in Confirmed
    BY <2>1, <2>2, CancelingFromConfirmed DEF Statuses
  <2> QED BY <2>1, <2>3 DEF IInv, RecordsOK, NotesSound, Sound
<1>4. ASSUME NEW i \in done \cup Moved(done, bad, how)
      PROVE  xstate[i] # "none" /\ Justified(i, new[i], filled[i])
  <2>1. i \in active /\ Accepts(i, new[i])
    BY <1>1, <1>2 DEF Moved, LoopEnds
  <2>2. i \in Ids /\ xstate[i] # "none" /\ new[i] = "CANCELING"
    BY <1>3, <2>1
  <2> HIDE DEF new
  <2> QED BY <2>2, FilledStays
     DEF Justified, Statuses, Terminal, NonTerminal, IInv, RecordsOK, PlacingPending
<1>5. /\ bad \in SUBSET Ids
      /\ \A i \in bad : filled[i] \in 0..Size /\ filled[i] <= filled[i] /\ filled[i] <= xfilled[i]
  BY FilledStays
<1>6. /\ next \in CallType /\ next.answer = {} /\ next.served = {}
      /\ next.op \in {"idle", "submit", "cancel"}
  BY IdleIsCall DEF NewCall, CallType, Ops
<1>7. how = "returned" => done = active
  BY <1>1 DEF LoopEnds
<1>8. canceling' \subseteq Ids
  BY <1>2 DEF IInv, WorldOK
<1>9. CASE how = "returned"
  <2>1. next.op = "cancel" => \A i \in next.ids : xstate[i] # "none"
    BY <1>4, <1>7, <1>9, IdleIsCall DEF NewCall
  <2> HIDE DEF new, next, active
  <2> QED BY <1>1, <1>2, <1>4, <1>5, <1>6, <1>8, <2>1, LoopStep
<1>10. CASE how # "returned"
  <2>1. Ends(how, "cancel", Idle)
    BY <1>2, <1>10 DEF Ends, Outcomes
  <2> HIDE DEF new, next, active
  <2> QED BY <1>1, <1>2, <1>4, <1>5, <1>8, <2>1, IdleIsCall, LoopStep
<1> QED
  BY <1>9, <1>10

\* CANCELED on the word of an answer is remembered as presumed.
LEMMA CancelAnsweredInv ==
    ASSUME IInv, NEW answered, NEW exception \in BOOLEAN,
           NEW done \in SUBSET call.ids,
           NEW how \in Outcomes, CancelAnswered(answered, exception, done, how)
    PROVE  IInv'
<1> DEFINE accepted == {i \in call.ids : SymbolOf[i] \in answered}
           new == [i \in Ids |-> IF i \in accepted THEN "CANCELED" ELSE "UNKNOWN"]
           todo == IF exception THEN call.ids
                   ELSE accepted \cup {i \in call.ids : status[i] = "CANCELING"}
<1>1. PICK bad \in SUBSET todo :
         LoopEnds(todo, new, done, bad, how) /\ Writes(done, bad, new, filled, how)
  BY DEF CancelAnswered
<1>2. /\ call.op = "cancel"
      /\ Ends(how, "cancel", Idle)
      /\ UNCHANGED <<net, exchange, booked>>
  BY DEF CancelAnswered
<1>3. call.ids \subseteq Ids
  BY DEF IInv, CallOK, CallType
<1>5. /\ bad \in SUBSET Ids /\ done \in SUBSET Ids
      /\ \A i \in bad : filled[i] \in 0..Size /\ filled[i] <= filled[i] /\ filled[i] <= xfilled[i]
  BY <1>3, FilledStays
<1>6. ASSUME NEW i \in done \cup Moved(done, bad, how)
      PROVE  Justified(i, new[i], filled[i])
  <2>1. i \in Ids /\ i \in call.ids
    BY <1>1, <1>3 DEF Moved
  <2>2. /\ i \in Moved(done, bad, how)
        /\ i \in done => status'[i] = IF how = "killed" THEN savedStatus'[i] ELSE new[i]
        /\ i \in Moved(done, bad, how) /\ how # "killed" => status'[i] = new[i]
        /\ i \in done => savedStatus'[i] = new[i]
    <3> HIDE DEF new, todo
    <3>1. Loop(todo, new, new, filled, done, bad, how)
      BY <1>1, WritesIsLoop
    <3>2. i \in Moved(done, bad, how)
      BY DEF Moved
    <3> QED BY <2>1, <3>1, <3>2, LoopMeans
  <2>3. status'[i] = new[i]
    BY <2>2 DEF Moved
  <2>4. Accepts(i, new[i])
    BY <1>1, <2>2 DEF LoopEnds, Moved
  <2>5. new[i] \in {"CANCELED", "UNKNOWN"}
    BY <2>1
  <2>6. xstate[i] # "none" /\ i \notin placing
    BY <1>2, <2>1 DEF IInv, CallOK, CallTracks, RecordsOK, PlacingPending
  <2> HIDE DEF new
  <2>7. new[i] = "CANCELED" => xstate[i] \in XFinal \/ i \in presumed'
    <3>1. CASE status[i] \notin Terminal
      BY <1>2, <2>1, <2>3, <3>1 DEF Ends
    <3>2. CASE status[i] \in Terminal
      <4>1. new[i] = status[i]
        BY <2>4, <3>2, TerminalStays, NotARecord DEF Accepts, Statuses
      <4>2. xstate[i] \in XFinal \/ i \in presumed
        BY <2>1, <3>2 DEF IInv, RecordsOK, NotesSound, Sound
      <4> QED BY <1>2, <2>1, <2>3, <4>1, <4>2 DEF Ends
    <3> QED BY <3>1, <3>2
  <2> QED BY <2>1, <2>5, <2>6, <2>7, FilledStays
        DEF Justified, Confirmed, Statuses, Terminal, NonTerminal
<1> HIDE DEF new, todo
<1> QED
  BY <1>1, <1>2, <1>5, <1>6, IdleIsCall, LoopStep DEF net, IInv, WorldOK

\* What a truthful report justifies for a record it may be applied to.
LEMMA ReportJustifies ==
    ASSUME IInv, NEW r \in Report, Truthful(r)
    PROVE  /\ r.id \in Ids
           /\ Higher(filled[r.id], r.filled) \in 0..Size
           /\ filled[r.id] <= Higher(filled[r.id], r.filled)
           /\ Higher(filled[r.id], r.filled) <= xfilled[r.id]
           /\ Justified(r.id, r.status, Higher(filled[r.id], r.filled))
           /\ Justified(r.id, "UNKNOWN", Higher(filled[r.id], r.filled))
<1>1. /\ r.id \in Ids /\ r.filled \in 0..Size /\ r.filled <= xfilled[r.id]
      /\ r.status \in Reported /\ xstate[r.id] # "none"
      /\ r.status \in Terminal => xstate[r.id] \in XFinal
  BY DEF Report, Truthful
<1>2. /\ filled[r.id] \in 0..Size /\ xfilled[r.id] \in 0..Size
      /\ filled[r.id] <= xfilled[r.id]
  BY <1>1 DEF IInv, RecordsOK, WorldOK, FillsAreReal
<1>3. r.id \notin placing
  BY <1>1 DEF IInv, RecordsOK, PlacingPending
<1>4. /\ Higher(filled[r.id], r.filled) \in 0..Size
      /\ filled[r.id] <= Higher(filled[r.id], r.filled)
      /\ Higher(filled[r.id], r.filled) <= xfilled[r.id]
  BY <1>1, <1>2, SizeAssumption DEF Higher
<1> QED
  BY <1>1, <1>3, <1>4
     DEF Justified, Reported, Confirmed, Statuses, Terminal, NonTerminal

\* Listed orders take a truthful report, missing ones are only put in doubt.
LEMMA ReconcileApplyInv ==
    ASSUME IInv, NEW done \in SUBSET Ids, NEW bad \in SUBSET Ids,
           NEW how \in Outcomes, ReconcileApply(done, bad, how)
    PROVE  IInv'
<1> DEFINE seen == {r.id : r \in call.answer}
           rep == [i \in seen |-> CHOOSE r \in call.answer : r.id = i]
           missing == Missing(seen)
           new == [i \in Ids |-> IF i \in seen /\ status[i] # NoRecord THEN rep[i].status
                                 ELSE "UNKNOWN"]
           size == [i \in Ids |-> IF i \in seen THEN Higher(filled[i], rep[i].filled)
                                  ELSE filled[i]]
<1>1. /\ done \subseteq seen \cup missing
      /\ LoopEnds(seen \cup missing, new, done, bad, how)
      /\ Writes(done, bad, new, size, how)
      /\ Ends(how, "reconcile", Idle)
      /\ UNCHANGED <<net, exchange, booked>>
  BY DEF ReconcileApply
<1>2. ASSUME NEW i \in seen
      PROVE  rep[i] \in Report /\ rep[i].id = i /\ Truthful(rep[i])
  <2>1. \E r \in call.answer : r.id = i
    OBVIOUS
  <2>2. rep[i] \in call.answer /\ rep[i].id = i
    BY <2>1
  <2> QED BY <2>2 DEF IInv, CallOK, CallType, AnswerTruthful
<1>3. ASSUME NEW i \in Ids
      PROVE  /\ size[i] \in 0..Size /\ filled[i] <= size[i] /\ size[i] <= xfilled[i]
             /\ Justified(i, new[i], size[i])
  <2>1. CASE i \in seen
    <3>1. /\ size[i] = Higher(filled[i], rep[i].filled)
          /\ new[i] \in {rep[i].status, "UNKNOWN"}
      BY <2>1
    <3> HIDE DEF new, size, rep, seen
    <3> QED BY <2>1, <3>1, <1>2, ReportJustifies
  <2>2. CASE i \notin seen
    <3>1. size[i] = filled[i] /\ new[i] = "UNKNOWN"
      BY <2>2
    <3> HIDE DEF new, size
    <3> QED BY <3>1, FilledStays DEF Justified, Confirmed, Statuses, Terminal, NonTerminal
  <2> QED BY <2>1, <2>2
<1>4. /\ \A i \in done \cup Moved(done, bad, how) : Justified(i, new[i], size[i])
      /\ \A i \in bad : size[i] \in 0..Size /\ filled[i] <= size[i] /\ size[i] <= xfilled[i]
  <2> HIDE DEF seen, rep, missing, new, size
  <2> QED BY <1>3 DEF Moved
<1> HIDE DEF seen, rep, missing, new, size
<1> QED
  BY <1>1, <1>4, IdleIsCall, LoopStep DEF net, IInv, WorldOK

\* A repaired order takes a truthful report.
LEMMA RepairApplyInv ==
    ASSUME IInv, NEW r \in call.answer,
           NEW done \in SUBSET {r.id}, NEW bad \in SUBSET {r.id},
           NEW how \in Outcomes, RepairApply(r, done, bad, how)
    PROVE  IInv'
<1> DEFINE new == [i \in Ids |-> r.status]
           size == [i \in Ids |-> Higher(filled[i], r.filled)]
           todo == IF r.status = "UNKNOWN" THEN {} ELSE {r.id}
<1>1. /\ LoopEnds(todo, new, done, bad, how)
      /\ Writes(done, bad, new, size, how)
      /\ Ends(how, "repair", Idle)
      /\ UNCHANGED <<net, exchange, booked>>
  BY DEF RepairApply
<1>2. r \in Report /\ Truthful(r)
  BY DEF IInv, CallOK, CallType, AnswerTruthful
<1>3. r.id \in Ids /\ new[r.id] = r.status /\ size[r.id] = Higher(filled[r.id], r.filled)
  BY <1>2, ReportJustifies
<1>4. /\ size[r.id] \in 0..Size /\ filled[r.id] <= size[r.id] /\ size[r.id] <= xfilled[r.id]
      /\ Justified(r.id, new[r.id], size[r.id])
  BY <1>2, <1>3, ReportJustifies
<1>5. /\ done \in SUBSET Ids /\ bad \in SUBSET Ids
      /\ \A i \in done \cup Moved(done, bad, how) : Justified(i, new[i], size[i])
      /\ \A i \in bad : size[i] \in 0..Size /\ filled[i] <= size[i] /\ size[i] <= xfilled[i]
  <2> HIDE DEF new, size
  <2> QED BY <1>3, <1>4 DEF Moved
<1> HIDE DEF new, size, todo
<1> QED
  BY <1>1, <1>5, IdleIsCall, LoopStep DEF net, IInv, WorldOK

\* A process that dies between two writes comes back with what was saved.
LEMMA KillInv ==
    ASSUME IInv, Kill
    PROVE  IInv'
<1> DEFINE how == "killed"
           nobody == {}
           op == "none"
<1>1. /\ nobody \in SUBSET Ids /\ how \in Outcomes /\ how = "killed"
      /\ \A i \in nobody : FALSE
      /\ \A i \in nobody \cup Moved(nobody, nobody, how) : FALSE
      /\ LoopEnds(nobody, status, nobody, nobody, how)
  BY DEF Outcomes, Moved, LoopEnds
<1>2. /\ Writes(nobody, nobody, status, filled, how) /\ Ends(how, op, Idle)
      /\ UNCHANGED <<net, exchange, booked>>
  BY DEF Kill
<1>3. UNCHANGED <<placing, exchange, booked>> /\ canceling' \subseteq Ids
  BY <1>2 DEF net, IInv, WorldOK
<1> HIDE DEF how, nobody, op
<1> QED
  BY <1>1, <1>2, <1>3, IdleIsCall, LoopStep

-----------------------------------------------------------------------------
(* The exchange, the network and the stream.                               *)

\* An order only moves forward on the exchange, and only if what was noted of it
\* allows: nothing was said of a new order, and a final one stays.
Forward(i, x, n) ==
    /\ x \in XStates \ {"none"} /\ n \in 0..Size /\ xfilled[i] <= n
    /\ xstate[i] \in XFinal => x \in XFinal
    /\ i \in Own => {status[i], savedStatus[i]} \cap {NoRecord, "CREATED"} = {}
    /\ xstate[i] = "none" => n = 0
    /\ x \in XLive => n < Size

\* An own order at the exchange was noted.
LEMMA OwnNoted ==
    ASSUME IInv, NEW i \in Ids, xstate[i] # "none" \/ i \in placing
    PROVE  i \in Own => {status[i], savedStatus[i]} \cap {NoRecord, "CREATED"} = {}
<1>1. Sound(i, status[i]) /\ Sound(i, savedStatus[i])
  BY DEF IInv, RecordsOK, NotesSound
<1> QED
  BY <1>1 DEF Sound, NoRecord

LEMMA OnlyForward ==
    ASSUME IInv, NEW i \in Ids, NEW x, NEW n, Forward(i, x, n), Moves(i, x, n)
    PROVE  /\ xstate' \in [Ids -> XStates] /\ xfilled' \in [Ids -> 0..Size]
           /\ xstate'[i] = x /\ xfilled'[i] = n
           /\ \A j \in Ids \ {i} : xstate'[j] = xstate[j] /\ xfilled'[j] = xfilled[j]
           /\ \A j \in Ids : /\ xstate[j] # "none" => xstate'[j] # "none"
                             /\ xstate[j] \in XFinal => xstate'[j] \in XFinal
                             /\ xfilled[j] \in Nat /\ xfilled'[j] \in Nat
                             /\ xfilled[j] <= xfilled'[j]
<1>1. WorldOK
  BY DEF IInv
<1>2. /\ xstate' \in [Ids -> XStates] /\ xfilled' \in [Ids -> 0..Size]
      /\ xstate'[i] = x /\ xfilled'[i] = n
      /\ \A j \in Ids \ {i} : xstate'[j] = xstate[j] /\ xfilled'[j] = xfilled[j]
  BY <1>1 DEF WorldOK, Moves, Forward
<1>3. ASSUME NEW j \in Ids
      PROVE  /\ xstate[j] # "none" => xstate'[j] # "none"
             /\ xstate[j] \in XFinal => xstate'[j] \in XFinal
             /\ xfilled[j] \in Nat /\ xfilled'[j] \in Nat /\ xfilled[j] <= xfilled'[j]
  <2>1. xfilled[j] \in Nat /\ xfilled'[j] \in Nat
    BY <1>1, <1>2, SizeAssumption DEF WorldOK
  <2>2. CASE j = i
    BY <2>1, <2>2, <1>2 DEF Forward
  <2>3. CASE j # i
    BY <2>1, <2>3, <1>2
  <2> QED BY <2>2, <2>3
<1> QED
  BY <1>2, <1>3

\* A report that is pushed is truthful, and those before it stay so.
LEMMA MovesKeepsWorld ==
    ASSUME IInv, NEW i \in Ids, NEW x, NEW n, Forward(i, x, n), Moves(i, x, n),
           placing' \subseteq placing, i \notin placing', canceling' \subseteq canceling,
           UNCHANGED <<memory, store, booked, presumed>>
    PROVE  RecordsOK' /\ WorldOK'
<1>1. RecordsOK /\ WorldOK
  BY DEF IInv
<1>2. /\ xstate' \in [Ids -> XStates] /\ xfilled' \in [Ids -> 0..Size]
      /\ xstate'[i] = x /\ xfilled'[i] = n
      /\ \A j \in Ids \ {i} : xstate'[j] = xstate[j] /\ xfilled'[j] = xfilled[j]
      /\ \A j \in Ids : /\ xstate[j] # "none" => xstate'[j] # "none"
                        /\ xstate[j] \in XFinal => xstate'[j] \in XFinal
                        /\ xfilled[j] \in Nat /\ xfilled'[j] \in Nat
                        /\ xfilled[j] <= xfilled'[j]
  BY OnlyForward
<1>4. /\ status' = status /\ savedStatus' = savedStatus /\ filled' = filled
      /\ savedFilled' = savedFilled /\ booked' = booked /\ presumed' = presumed
  BY DEF memory, store
<1>5. RecordsOK'
  <2>1. FillsAreReal'
    <3> SUFFICES ASSUME NEW j \in Ids PROVE filled[j] <= xfilled'[j]
      BY <1>1, <1>4 DEF RecordsOK, FillsAreReal
    <3>1. filled[j] \in Nat /\ filled[j] <= xfilled[j]
      BY <1>1, SizeAssumption DEF RecordsOK, FillsAreReal
    <3> QED BY <3>1, <1>2
  <2>2. PlacingPending'
    BY <1>1, <1>2, <1>4 DEF RecordsOK, WorldOK, PlacingPending, Ids
  <2>3. ASSUME NEW j \in Ids, NEW s, s \in {status[j], savedStatus[j]}
        PROVE  /\ s \in Confirmed => xstate'[j] # "none"
               /\ s \in Terminal => xstate'[j] \in XFinal \/ (j \in presumed /\ s = "CANCELED")
               /\ j \in placing' => s \in {"SUBMITTING", "UNKNOWN"}
               /\ j \in Own /\ xstate'[j] # "none" => s \notin {NoRecord, "CREATED"}
    <3>1. Sound(j, s)
      BY <1>1, <2>3 DEF RecordsOK, NotesSound
    <3>2. j \in Own /\ xstate'[j] # "none" => s \notin {NoRecord, "CREATED"}
      <4>1. CASE j = i
        BY <2>3, <4>1 DEF Forward
      <4>2. CASE j # i
        BY <1>2, <3>1, <4>2 DEF Sound
      <4> QED BY <4>1, <4>2
    <3> QED BY <1>2, <3>1, <3>2 DEF Sound
  <2>4. NotesSound'
    BY <1>4, <2>3 DEF NotesSound, Sound
  <2>5. StoreLags' /\ PresumedCanceled'
    BY <1>1, <1>4 DEF RecordsOK, StoreLags, PresumedCanceled
  <2> QED
    BY <1>1, <1>4, <2>1, <2>2, <2>4, <2>5 DEF RecordsOK
<1>6. connected' \in BOOLEAN /\ stream' \in Seq(Report) /\ StreamTruthful'
  <2> DEFINE r == [id |-> i, status |-> StreamStatus(x), filled |-> n]
  <2>1. r \in Report /\ Truthful(r)'
    <3>1. /\ StreamStatus(x) \in Reported
          /\ StreamStatus(x) \in Terminal => x \in XFinal
      BY ReportsAreTrue DEF Forward
    <3> QED BY <3>1, <1>2 DEF Forward, Report, Truthful, Reported, Statuses, Terminal,
                              NonTerminal
  <2>2. connected' = connected /\ (stream' = stream \/ stream' = Append(stream, r))
    BY DEF Moves, Push
  <2>3. ASSUME NEW q \in Report, Truthful(q) PROVE Truthful(q)'
    <3>1. q.id \in Ids /\ q.filled \in Nat
      BY SizeAssumption DEF Report
    <3>2. /\ xstate'[q.id] # "none"
          /\ q.filled <= xfilled'[q.id]
          /\ q.status \in Terminal => xstate'[q.id] \in XFinal
      BY <2>3, <3>1, <1>2 DEF Truthful
    <3> QED BY <2>3, <3>2 DEF Truthful
  <2>4. stream \in Seq(Report) /\ \A k \in 1..Len(stream) : Truthful(stream[k])
    BY <1>1 DEF WorldOK, StreamTruthful
  <2> HIDE DEF r
  <2>5. stream' \in Seq(Report)
    BY <2>1, <2>2, <2>4
  <2>6. ASSUME NEW k \in 1..Len(stream'), NEW q, q = stream'[k]
        PROVE  Truthful(q)'
    <3>1. CASE k \in 1..Len(stream) /\ q = stream[k]
      BY <3>1, <2>3, <2>4
    <3>2. CASE q = r
      BY <3>2, <2>1
    <3>3. \/ k \in 1..Len(stream) /\ q = stream[k]
          \/ q = r
      BY <2>1, <2>2, <2>4, <2>6
    <3> QED BY <3>1, <3>2, <3>3
  <2>7. StreamTruthful'
    BY <2>6 DEF StreamTruthful, Truthful
  <2> QED BY <1>1, <2>2, <2>5, <2>7 DEF WorldOK
<1>7. TradedSizes'
  BY <1>1, <1>2 DEF WorldOK, TradedSizes, Forward
<1> QED
  BY <1>1, <1>2, <1>5, <1>6, <1>7 DEF WorldOK

\* The call in flight knows more when one of its orders is served.
LEMMA MovesKeepsCall ==
    ASSUME IInv, NEW i \in Ids, NEW x, NEW n, Forward(i, x, n), Moves(i, x, n),
           call' \in CallType, call'.op = call.op, call'.ids = call.ids,
           call'.answer = call.answer, call'.served \subseteq call.served \cup {i},
           UNCHANGED <<raised, reconciled, kills, presumed>>
    PROVE  CallOK'
<1>1. CallOK
  BY DEF IInv
<1>2. /\ xstate' \in [Ids -> XStates] /\ xfilled' \in [Ids -> 0..Size]
      /\ xstate'[i] = x /\ xfilled'[i] = n
      /\ \A j \in Ids \ {i} : xstate'[j] = xstate[j] /\ xfilled'[j] = xfilled[j]
      /\ \A j \in Ids : /\ xstate[j] # "none" => xstate'[j] # "none"
                        /\ xstate[j] \in XFinal => xstate'[j] \in XFinal
                        /\ xfilled[j] \in Nat /\ xfilled'[j] \in Nat
                        /\ xfilled[j] <= xfilled'[j]
  BY OnlyForward
<1>3. ASSUME NEW r \in call'.answer PROVE Truthful(r)'
  <2>1. r \in Report /\ Truthful(r)
    BY <1>1 DEF CallOK, CallType, AnswerTruthful
  <2>2. r.id \in Ids /\ r.filled \in Nat
    BY <2>1, SizeAssumption DEF Report
  <2> QED BY <2>1, <2>2, <1>2 DEF Truthful
<1>4. CallTracks'
  <2>1. call.ids \subseteq Ids /\ call.served \subseteq Ids
    BY <1>1 DEF CallOK, CallType
  <2>2. x # "none"
    BY DEF Forward
  <2> QED BY <1>1, <2>1, <2>2, <1>2 DEF CallOK, CallTracks
<1> QED
  BY <1>1, <1>3, <1>4 DEF CallOK, AnswerTruthful

\* Steps that only make a call or open or close the stream.
LEMMA NothingMoves ==
    ASSUME IInv, UNCHANGED <<memory, store, booked, presumed, exchange, placing>>,
           canceling' \subseteq canceling, connected' \in BOOLEAN,
           stream' = stream \/ stream' = <<>>
    PROVE  RecordsOK' /\ WorldOK'
<1>1. RecordsOK /\ WorldOK
  BY DEF IInv
<1>2. RecordsOK'
  BY <1>1 DEF RecordsOK, FillsAreReal, PlacingPending, NotesSound, Sound, StoreLags,
              PresumedCanceled, memory, store, exchange
<1>3. stream' \in Seq(Report) /\ StreamTruthful'
  <2>1. CASE stream' = stream
    BY <1>1, <2>1 DEF WorldOK, StreamTruthful, Truthful, exchange
  <2>2. CASE stream' = <<>>
    <3>1. stream' \in Seq(Report) /\ Len(stream') = 0
      BY <2>2
    <3> QED BY <3>1 DEF StreamTruthful
  <2> QED BY <2>1, <2>2
<1> QED
  BY <1>1, <1>2, <1>3 DEF WorldOK, TradedSizes, exchange

LEMMA ServePlaceInv ==
    ASSUME IInv, NEW i \in Ids, NEW x, ServePlace(i, x)
    PROVE  IInv'
<1>1. /\ i \in placing /\ x \in {"new", "failed"}
      /\ placing' = placing \ {i} /\ Moves(i, x, 0)
      /\ UNCHANGED <<memory, store, canceling, history>>
      /\ call' = [call EXCEPT !.served =
                    IF call.op = "submit" /\ i \in call.ids THEN @ \cup {i} ELSE @]
  BY DEF ServePlace
<1>2. Forward(i, x, 0)
  <2>1. xstate[i] = "none" /\ xfilled[i] = 0
    BY <1>1 DEF IInv, RecordsOK, WorldOK, TradedSizes, PlacingPending
  <2>2. x \in XStates \ {"none"} /\ "none" \notin XFinal /\ 0 \in 0..Size
    BY <1>1, SizeAssumption DEF XStates, XLive, XFinal
  <2>3. 0 <= 0 /\ 0 < Size
    BY SizeAssumption
  <2> QED BY <1>1, <2>1, <2>2, <2>3, OwnNoted DEF Forward
<1>3. RecordsOK' /\ WorldOK'
  BY <1>1, <1>2, MovesKeepsWorld DEF history
<1>4. /\ call' \in CallType /\ call'.op = call.op /\ call'.ids = call.ids
      /\ call'.answer = call.answer /\ call'.served \subseteq call.served \cup {i}
  BY <1>1 DEF IInv, CallOK, CallType
<1>5. CallOK'
  BY <1>1, <1>2, <1>4, MovesKeepsCall DEF history
<1> QED
  BY <1>3, <1>5 DEF IInv

\* A live order that is canceled moves forward.
LEMMA CancelsForward ==
    ASSUME IInv, NEW i \in Ids, Cancels(i)
    PROVE  /\ i \notin placing
           /\ \E x \in XFinal : Forward(i, x, xfilled[i]) /\ Moves(i, x, xfilled[i])
<1> DEFINE x == IF xfilled[i] = 0 THEN "canceled" ELSE "partially_canceled"
<1>1. xstate[i] \in XLive /\ Moves(i, x, xfilled[i])
  BY DEF Cancels
<1>2. x \in XFinal /\ x \in XStates \ {"none"} /\ x \notin XLive
  BY DEF XFinal, XStates, XLive
<1> HIDE DEF x
<1>3. xfilled[i] \in 0..Size /\ i \notin placing /\ xstate[i] # "none"
  BY <1>1 DEF IInv, RecordsOK, WorldOK, PlacingPending, XLive
<1>4. Forward(i, x, xfilled[i])
  <2>1. i \in Own => {status[i], savedStatus[i]} \cap {NoRecord, "CREATED"} = {}
    BY <1>3, OwnNoted
  <2> QED BY <1>2, <1>3, <2>1, SizeAssumption DEF Forward
<1> QED
  BY <1>1, <1>2, <1>3, <1>4

LEMMA ServeCancelInv ==
    ASSUME IInv, NEW i \in Ids, ServeCancel(i)
    PROVE  IInv'
<1>1. /\ canceling' = canceling \ {i}
      /\ UNCHANGED <<memory, store, placing, history>>
      /\ call' = [call EXCEPT !.served =
                    IF call.op = "cancel" /\ i \in call.ids THEN @ \cup {i} ELSE @]
      /\ Cancels(i) \/ UNCHANGED <<exchange, link>>
  BY DEF ServeCancel
<1>2. /\ call' \in CallType /\ call'.op = call.op /\ call'.ids = call.ids
      /\ call'.answer = call.answer /\ call'.served \subseteq call.served \cup {i}
      /\ call.op # "cancel" => call'.served = call.served
  BY <1>1 DEF IInv, CallOK, CallType
<1>3. CASE Cancels(i)
  <2>1. PICK x \in XFinal : Forward(i, x, xfilled[i]) /\ Moves(i, x, xfilled[i])
    BY <1>3, CancelsForward
  <2>2. i \notin placing
    BY <1>3, CancelsForward
  <2>3. RecordsOK' /\ WorldOK'
    BY <1>1, <2>1, <2>2, MovesKeepsWorld DEF history
  <2>4. CallOK'
    BY <1>1, <1>2, <2>1, MovesKeepsCall DEF history
  <2> QED BY <2>3, <2>4 DEF IInv
<1>4. CASE UNCHANGED <<exchange, link>>
  <2>1. RecordsOK' /\ WorldOK'
    BY <1>1, <1>4, NothingMoves DEF history, link, IInv, WorldOK
  <2>2. AnswerTruthful' /\ CallTracks'
    BY <1>1, <1>2, <1>4 DEF IInv, CallOK, AnswerTruthful, CallTracks, Truthful, exchange, history
  <2>3. CallOK'
    BY <1>1, <1>2, <2>2 DEF IInv, CallOK, history
  <2> QED BY <2>1, <2>3 DEF IInv
<1> QED
  BY <1>1, <1>3, <1>4

LEMMA TradeInv ==
    ASSUME IInv, NEW i \in Ids, Trade(i)
    PROVE  IInv'
<1> DEFINE x == IF xfilled[i] + 1 = Size THEN "filled" ELSE "partially_filled"
           n == xfilled[i] + 1
<1>1. /\ xstate[i] \in XLive /\ Moves(i, x, n)
      /\ UNCHANGED <<memory, store, call, net, history>>
  BY DEF Trade
<1>2. n \in 0..Size /\ xfilled[i] <= n
  <2>1. xfilled[i] \in 0..Size /\ xfilled[i] < Size
    BY <1>1 DEF IInv, WorldOK, TradedSizes
  <2> QED BY <2>1, SizeAssumption
<1>3. Forward(i, x, n)
  <2>1. xstate[i] # "none" /\ xstate[i] \notin XFinal
    BY <1>1 DEF XLive, XFinal
  <2>2. x \in XStates \ {"none"} /\ (x \in XLive => n # Size)
    BY DEF XStates, XLive, XFinal
  <2>3. n \in 0..Size /\ n # Size => n < Size
    BY SizeAssumption
  <2>4. i \in Own => {status[i], savedStatus[i]} \cap {NoRecord, "CREATED"} = {}
    BY <2>1, OwnNoted
  <2> HIDE DEF x, n
  <2> QED BY <1>2, <2>1, <2>2, <2>3, <2>4 DEF Forward
<1>4. i \notin placing'
  BY <1>1 DEF IInv, RecordsOK, PlacingPending, net, XLive
<1> HIDE DEF x, n
<1>5. RecordsOK' /\ WorldOK'
  BY <1>1, <1>3, <1>4, MovesKeepsWorld DEF net, history
<1>6. CallOK'
  BY <1>1, <1>3, MovesKeepsCall DEF history, IInv, CallOK
<1> QED
  BY <1>5, <1>6 DEF IInv

\* An outsider may only touch what is live, or place an order of its own.
LEMMA OutsiderInv ==
    ASSUME IInv, NEW i \in Ids, Outsider(i)
    PROVE  IInv'
<1>1. /\ \/ i \in Foreign /\ xstate[i] = "none" /\ Moves(i, "new", 0)
         \/ Cancels(i)
      /\ UNCHANGED <<memory, store, call, net, history>>
  BY DEF Outsider
<1>3. ASSUME NEW y, NEW n, Forward(i, y, n), Moves(i, y, n), i \notin placing'
      PROVE  IInv'
  <2>1. RecordsOK' /\ WorldOK'
    BY <1>1, <1>3, MovesKeepsWorld DEF net, history
  <2>2. CallOK'
    BY <1>1, <1>3, MovesKeepsCall DEF history, IInv, CallOK
  <2> QED BY <2>1, <2>2 DEF IInv
<1>4. CASE i \in Foreign /\ xstate[i] = "none" /\ Moves(i, "new", 0)
  <2>1. i \notin Own /\ xfilled[i] = 0 /\ i \notin placing'
    BY <1>1, <1>4, IdAssumption DEF IInv, WorldOK, TradedSizes, net
  <2>2. Forward(i, "new", 0)
    BY <1>4, <2>1, SizeAssumption DEF Forward, XStates, XLive, XFinal
  <2> QED BY <1>3, <1>4, <2>1, <2>2
<1>5. CASE Cancels(i)
  <2>1. PICK x \in XFinal : Forward(i, x, xfilled[i]) /\ Moves(i, x, xfilled[i])
    BY <1>5, CancelsForward
  <2>2. i \notin placing'
    BY <1>1, <1>5, CancelsForward DEF net
  <2> QED BY <1>3, <2>1, <2>2
<1> QED
  BY <1>1, <1>4, <1>5

LEMMA RepeatInv ==
    ASSUME IInv, NEW i \in Ids, Repeat(i)
    PROVE  IInv'
<1>1. /\ xstate[i] # "none" /\ Push(i, xstate[i], xfilled[i])
      /\ UNCHANGED <<memory, store, call, net, exchange, history>>
  BY DEF Repeat
<1>2. xstate[i] \in XStates /\ xfilled[i] \in 0..Size
  BY DEF IInv, WorldOK
<1>3. Moves(i, xstate[i], xfilled[i])
  BY <1>1 DEF Moves, IInv, WorldOK, exchange
<1>4. Forward(i, xstate[i], xfilled[i])
  <2>1. i \in Own => {status[i], savedStatus[i]} \cap {NoRecord, "CREATED"} = {}
    BY <1>1, OwnNoted
  <2> QED BY <1>1, <1>2, <2>1, SizeAssumption DEF IInv, WorldOK, TradedSizes, Forward
<1>5. i \notin placing'
  BY <1>1 DEF IInv, RecordsOK, PlacingPending, net
<1>6. RecordsOK' /\ WorldOK'
  BY <1>1, <1>3, <1>4, <1>5, MovesKeepsWorld DEF net, history
<1>7. CallOK'
  BY <1>1, <1>3, <1>4, MovesKeepsCall DEF history, IInv, CallOK
<1> QED
  BY <1>6, <1>7 DEF IInv

\* The exchange answers a query with facts; an open-orders answer lists no order
\* that is over.
LEMMA ServeQueryInv ==
    ASSUME IInv, ServeQuery
    PROVE  IInv'
<1>1. UNCHANGED <<memory, store, net, exchange, link, history>>
  BY DEF ServeQuery
<1>0. call.ids \subseteq Ids
  BY DEF IInv, CallOK, CallType
<1>2. PICK op \in {"got_open", "got_order"}, S \in SUBSET call.ids :
         /\ call' = Answered(op, S) /\ \A i \in S : xstate[i] # "none"
         /\ op = "got_open" => \A i \in S : xstate[i] \in XLive
         /\ op = "got_order" => call.op = "ask_order"
  <2>1. CASE call.op = "ask_open"
    <3>1. PICK S \in SUBSET LiveAsked : call' = Answered("got_open", S)
      BY <2>1 DEF ServeQuery
    <3> QED BY <3>1 DEF XLive, LiveAsked
  <2>2. CASE call.op # "ask_open"
    <3>1. /\ call.op = "ask_order"
          /\ call' = Answered("got_order", call.ids) /\ \A i \in call.ids : xstate[i] # "none"
      BY <2>2 DEF ServeQuery
    <3> QED BY <3>1
  <2> QED BY <2>1, <2>2
<1>3. ASSUME NEW i \in S
      PROVE  /\ RestReport(i) \in Report /\ Truthful(RestReport(i)) /\ RestReport(i).id = i
             /\ op = "got_open" => RestReport(i).status \notin Terminal
  <2>1. xstate[i] \in XStates /\ xfilled[i] \in 0..Size /\ xstate[i] # "none"
    BY <1>0, <1>2 DEF IInv, WorldOK
  <2>2. /\ RestStatus(xstate[i]) \in Reported
        /\ RestStatus(xstate[i]) \in Terminal => xstate[i] \in XFinal
    BY <2>1, ReportsAreTrue
  <2>3. xfilled[i] <= xfilled[i]
    BY <2>1, SizeAssumption
  <2>4. op = "got_open" => RestStatus(xstate[i]) \notin Terminal
    BY <1>2, <2>2 DEF XLive, XFinal
  <2> QED BY <1>0, <2>1, <2>2, <2>3, <2>4
          DEF RestReport, Report, Truthful, Reported, Statuses, Terminal, NonTerminal
<1>4. RecordsOK' /\ WorldOK'
  BY <1>1, NothingMoves DEF net, link, history, IInv, WorldOK
<1>5. call' \in CallType
  BY <1>0, <1>2, <1>3 DEF CallType, Ops, Answered
<1>6. AnswerTruthful' /\ CallTracks'
  <2>1. call'.answer = {RestReport(i) : i \in S} /\ call'.op = op /\ call'.ids = call.ids
    BY <1>2 DEF Answered
  <2>2. ASSUME NEW r \in call'.answer PROVE Truthful(r)'
    <3>1. Truthful(r)
      BY <2>1, <1>3
    <3> QED BY <3>1, <1>1 DEF Truthful, exchange
  <2>3. op = "got_order" => call.ids \cap presumed = {}
    BY <1>2 DEF IInv, CallOK, CallTracks
  <2>4. presumed' = presumed
    BY <1>1 DEF history
  <2>5. CallTracks'
    BY <1>3, <2>1, <2>3, <2>4 DEF CallTracks
  <2> QED BY <2>2, <2>5 DEF AnswerTruthful
<1> QED
  BY <1>1, <1>4, <1>5, <1>6 DEF IInv, CallOK, history

\* Steps that only make, or give up, a call, or open or close the stream.
LEMMA CallsAndLinkInv ==
    ASSUME IInv,
           \/ \E symbol \in Symbols : AskOpenOrders(symbol)
           \/ QueryFails \/ StreamConnect \/ StreamDrop
           \/ \E i \in Ids : AskOrder(i)
    PROVE  IInv'
<1> DEFINE Asks == \E op \in {"idle", "ask_open", "ask_order"}, S \in SUBSET Ids :
                     /\ call' = NewCall(op, S)
                     /\ op = "ask_order" => S \cap presumed = {}
<1>1. /\ UNCHANGED <<memory, store, net, exchange, history>>
      /\ connected' \in BOOLEAN
      /\ stream' = stream \/ stream' = <<>>
      /\ call' = call \/ Asks
  <2>1. CASE \E symbol \in Symbols : AskOpenOrders(symbol)
    <3>1. PICK symbol \in Symbols : AskOpenOrders(symbol)
      BY <2>1
    <3>2. call' = NewCall("ask_open", OrdersOf(symbol)) /\ OrdersOf(symbol) \in SUBSET Ids
      BY <3>1 DEF AskOpenOrders, OrdersOf
    <3> QED BY <3>1, <3>2 DEF AskOpenOrders, link, IInv, WorldOK
  <2>2. CASE QueryFails
    <3>1. call' = NewCall("idle", {})
      BY <2>2 DEF QueryFails, Idle
    <3> QED BY <2>2, <3>1 DEF QueryFails, link, IInv, WorldOK
  <2>3. CASE StreamConnect \/ StreamDrop
    BY <2>3 DEF StreamConnect, StreamDrop
  <2>4. CASE \E i \in Ids : AskOrder(i)
    <3>1. PICK i \in Ids : AskOrder(i)
      BY <2>4
    <3>2. call' = NewCall("ask_order", {i}) /\ {i} \cap presumed = {}
      BY <3>1 DEF AskOrder, IInv, RecordsOK, PresumedCanceled
    <3> QED BY <3>1, <3>2 DEF AskOrder, link, IInv, WorldOK
  <2> QED BY <2>1, <2>2, <2>3, <2>4
<1>2. RecordsOK' /\ WorldOK'
  BY <1>1, NothingMoves DEF net, history
<1>3. CASE call' = call
  BY <1>1, <1>2, <1>3
     DEF IInv, CallOK, AnswerTruthful, CallTracks, Truthful, exchange, history
<1>4. CASE Asks
  <2>0. PICK op \in {"idle", "ask_open", "ask_order"}, S \in SUBSET Ids :
          call' = NewCall(op, S) /\ (op = "ask_order" => S \cap presumed = {})
    BY <1>4
  <2>1. /\ call' \in CallType /\ call'.answer = {}
        /\ call'.op \in {"idle", "ask_open", "ask_order"}
        /\ call'.op = "ask_order" => call'.ids \cap presumed = {}
    BY <2>0 DEF NewCall, CallType, Ops
  <2>2. AnswerTruthful' /\ CallTracks'
    BY <1>1, <2>1 DEF AnswerTruthful, CallTracks, history
  <2> QED BY <1>1, <1>2, <2>1, <2>2 DEF IInv, CallOK, history
<1> QED
  BY <1>1, <1>3, <1>4

\* A report is applied to the record, the ones behind it stay or are lost.
LEMMA StreamApplyInv ==
    ASSUME IInv, NEW how \in Outcomes, stream # <<>>,
           NEW done \in SUBSET {Head(stream).id}, NEW bad \in SUBSET {Head(stream).id},
           StreamApply(how, done, bad)
    PROVE  IInv'
<1> DEFINE m == Head(stream)
           new == [i \in Ids |-> IF status[i] = NoRecord THEN "UNKNOWN" ELSE m.status]
           size == [i \in Ids |-> Higher(filled[i], m.filled)]
           fill == IF status[m.id] # NoRecord /\ m.status # "UNKNOWN"
                   THEN size[m.id] - filled[m.id] ELSE 0
<1>1. /\ how # "killed"
      /\ LoopEnds({m.id}, new, done, bad, how)
      /\ Writes(done, bad, new, size, how)
      /\ UNCHANGED <<call, net, exchange, raised, reconciled, kills>>
      /\ presumed' = IF m.status = "CANCELED" THEN presumed \ {m.id} ELSE presumed
  BY DEF StreamApply
<1>2. \/ /\ how = "returned" /\ stream' = Tail(stream)
         /\ booked' = [booked EXCEPT ![m.id] = @ + fill]
         /\ UNCHANGED connected
      \/ /\ how # "returned" /\ stream' = <<>> /\ connected' = FALSE
         /\ UNCHANGED booked
  BY DEF StreamApply
<1>3. stream \in Seq(Report) /\ m \in Report /\ Truthful(m)
  <2>1. stream \in Seq(Report) /\ StreamTruthful
    BY DEF IInv, WorldOK
  <2>2. m = stream[1] /\ 1 \in 1..Len(stream)
    BY <2>1
  <2> QED BY <2>1, <2>2 DEF StreamTruthful
<1>4. /\ m.id \in Ids
      /\ size[m.id] \in 0..Size /\ filled[m.id] <= size[m.id] /\ size[m.id] <= xfilled[m.id]
      /\ Justified(m.id, new[m.id], size[m.id])
  <2>1. /\ m.id \in Ids /\ size[m.id] = Higher(filled[m.id], m.filled)
        /\ new[m.id] \in {m.status, "UNKNOWN"}
    BY <1>3, ReportJustifies
  <2> HIDE DEF m, new, size
  <2> QED BY <2>1, <1>3, ReportJustifies
<1>5. /\ \A i \in done : i = m.id
      /\ \A i \in bad : i = m.id
      /\ how = "returned" => done = {m.id}
  BY <1>1 DEF LoopEnds
<1>6. /\ filled[m.id] \in Nat /\ size[m.id] \in Nat /\ booked[m.id] \in Nat
      /\ fill \in Nat /\ booked[m.id] + fill <= size[m.id]
  <2>1. /\ filled[m.id] \in 0..Size /\ booked[m.id] \in Nat /\ savedFilled[m.id] \in 0..Size
        /\ booked[m.id] <= savedFilled[m.id] /\ savedFilled[m.id] <= filled[m.id]
    BY <1>4 DEF IInv, RecordsOK, FillsAreReal
  <2>2. fill = 0 \/ fill = size[m.id] - filled[m.id]
    OBVIOUS
  <2> HIDE DEF size, fill, m
  <2> QED BY <1>4, <2>1, <2>2, SizeAssumption
<1>7. booked' \in [Ids -> Nat]
  <2> HIDE DEF fill, m
  <2> QED BY <1>2, <1>4, <1>6 DEF IInv, RecordsOK
<1>8. ASSUME NEW i \in Ids
      PROVE  booked'[i] <= savedFilled'[i]
  <2> HIDE DEF fill, m, size, new
  <2>1. savedFilled'[i] = IF i \in done THEN size[i] ELSE savedFilled[i]
    BY <1>1 DEF Writes, Saves, Updated
  <2>2. /\ booked[i] \in Nat /\ savedFilled[i] \in Nat /\ filled[i] \in Nat
        /\ booked[i] <= savedFilled[i] /\ savedFilled[i] <= filled[i]
    BY SizeAssumption DEF IInv, RecordsOK, FillsAreReal
  <2>3. CASE how = "returned" /\ i = m.id
    <3>1. booked'[i] = booked[i] + fill
      BY <1>2, <1>4, <2>3 DEF IInv, RecordsOK
    <3> QED BY <3>1, <2>1, <2>3, <1>5, <1>6
  <2>4. CASE ~(how = "returned" /\ i = m.id)
    <3>1. booked'[i] = booked[i]
      BY <1>2, <2>4 DEF IInv, RecordsOK
    <3> QED BY <3>1, <2>1, <2>2, <1>4, <1>5, SizeAssumption
  <2> QED BY <2>3, <2>4
<1>9. Loop({m.id}, new, new, size, done, bad, how)
  <2> HIDE DEF new, size, m
  <2> QED BY <1>1, WritesIsLoop
<1>10. /\ presumed' \subseteq Ids
       /\ \A i \in presumed' : status'[i] = "CANCELED"
       /\ \A i \in presumed : status'[i] = "CANCELED" => i \in presumed' \/ xstate[i] \in XFinal
  <2> HIDE DEF new, size, fill
  <2>1. presumed \subseteq Ids /\ \A i \in presumed : status[i] = "CANCELED"
    BY DEF IInv, RecordsOK, PresumedCanceled
  <2>2. \A i \in presumed : status'[i] = "CANCELED"
    <3> SUFFICES ASSUME NEW i \in presumed PROVE status'[i] = "CANCELED"
      OBVIOUS
    <3>1. i \in Ids /\ status[i] = "CANCELED" /\ StoreLags
      BY <2>1 DEF IInv, RecordsOK
    <3> HIDE DEF m
    <3> QED BY <1>1, <1>9, <3>1, LoopKeepsTerminal, NotARecord
  <2>3. m.status = "CANCELED" => xstate[m.id] \in XFinal
    BY <1>3 DEF Truthful, Terminal
  <2> HIDE DEF m
  <2> QED BY <1>1, <2>1, <2>2, <2>3
<1>11. RecordsOK'
  <2>1. /\ \A i \in done : Justified(i, new[i], size[i])
        /\ \A i \in Moved(done, bad, how) : Justified(i, new[i], size[i])
        /\ \A i \in bad : size[i] \in 0..Size /\ filled[i] <= size[i] /\ size[i] <= xfilled[i]
    <3> HIDE DEF new, size, m
    <3> QED BY <1>4, <1>5 DEF Moved
  <2>2. UNCHANGED exchange /\ placing' \ placing = {}
    BY <1>1 DEF net
  <2>3. done \in SUBSET Ids /\ bad \in SUBSET Ids
    BY <1>4, <1>5
  <2> HIDE DEF new, size, m, fill
  <2> QED BY <1>7, <1>8, <1>9, <1>10, <2>1, <2>2, <2>3, LoopKeepsRecords DEF IInv
<1>12. WorldOK'
  <2>1. stream' \in Seq(Report) /\ connected' \in BOOLEAN
    <3>1. Tail(stream) \in Seq(Report) /\ connected \in BOOLEAN
      BY <1>3 DEF IInv, WorldOK
    <3>2. stream' \in Seq(Report)
      <4> HIDE DEF fill, m
      <4>1. stream' = Tail(stream) \/ stream' = <<>>
        BY <1>2
      <4>2. CASE stream' = Tail(stream)
        BY <3>1, <4>2
      <4>3. CASE stream' = <<>>
        BY <4>3
      <4> QED BY <4>1, <4>2, <4>3
    <3>3. connected' \in BOOLEAN
      <4> HIDE DEF fill, m
      <4> QED BY <3>1, <1>2
    <3> QED BY <3>2, <3>3
  <2>2. \A k \in 1..Len(stream') : k + 1 \in 1..Len(stream) /\ stream'[k] = stream[k + 1]
    <3>1. stream' = Tail(stream) \/ stream' = <<>>
      BY <1>2
    <3> HIDE DEF m, fill
    <3>2. CASE stream' = Tail(stream)
      BY <1>3, <3>2
    <3>3. CASE stream' = <<>>
      BY <3>3
    <3> QED BY <3>1, <3>2, <3>3
  <2>3. StreamTruthful'
    BY <1>1, <2>2 DEF IInv, WorldOK, StreamTruthful, Truthful, exchange
  <2> QED BY <1>1, <2>1, <2>3 DEF IInv, WorldOK, TradedSizes, net, exchange
<1>13. CallOK'
  <2>1. presumed' \subseteq presumed /\ UNCHANGED <<call, exchange, raised, reconciled, kills>>
    BY <1>1
  <2> QED BY <2>1 DEF IInv, CallOK, AnswerTruthful, CallTracks, Truthful, exchange
<1> QED
  BY <1>11, <1>12, <1>13 DEF IInv

-----------------------------------------------------------------------------
(* The invariant and what follows from it.                                 *)

LEMMA StepIInv == IInv /\ [Next]_vars => IInv'
<1> SUFFICES ASSUME IInv, [Next]_vars PROVE IInv'
  OBVIOUS
<1>0. call.ids \subseteq Ids
  BY DEF IInv, CallOK, CallType
<1>1. CASE Engine
  <2>1. ASSUME NEW S \in (SUBSET {i \in Own : status[i] = NoRecord}) \ {{}}, NEW how \in Outcomes,
               NEW done \in SUBSET S, NEW bad \in SUBSET S, NEW half \in SUBSET done,
               NEW begun \in SUBSET half, SubmitBegin(S, how, done, bad, half, begun)
        PROVE  IInv'
    BY <2>1, SubmitBeginInv
  <2>2. ASSUME NEW S \in (SUBSET Ids) \ {{}}, NEW done \in SUBSET S,
               NEW how \in Outcomes, CancelBegin(S, done, how)
        PROVE  IInv'
    BY <2>2, CancelBeginInv
  <2>3. ASSUME NEW acked \in SUBSET call.ids, NEW done \in SUBSET call.ids,
               NEW how \in Outcomes, SubmitAnswered(acked, done, how)
        PROVE  IInv'
    BY <2>3, SubmitAnsweredInv
  <2>4. ASSUME NEW answered \in SUBSET Symbols, NEW exception \in BOOLEAN,
               NEW done \in SUBSET call.ids,
               NEW how \in Outcomes, CancelAnswered(answered, exception, done, how)
        PROVE  IInv'
    BY <2>4, CancelAnsweredInv
  <2>5. ASSUME NEW done \in SUBSET call.ids, NEW bad \in SUBSET call.ids,
               NEW how \in Outcomes, ReconcileApply(done, bad, how)
        PROVE  IInv'
    BY <1>0, <2>5, ReconcileApplyInv
  <2>6. ASSUME NEW r \in call.answer, NEW how \in Outcomes,
               NEW done \in SUBSET {r.id}, NEW bad \in SUBSET {r.id},
               RepairApply(r, done, bad, how)
        PROVE  IInv'
    BY <2>6, RepairApplyInv
  <2>7. CASE \/ \E symbol \in Symbols : AskOpenOrders(symbol)
             \/ QueryFails \/ \E i \in Ids : AskOrder(i)
    BY <2>7, CallsAndLinkInv
  <2>8. CASE Kill
    BY <2>8, KillInv
  <2> QED BY <1>1, <2>1, <2>2, <2>3, <2>4, <2>5, <2>6, <2>7, <2>8 DEF Engine
<1>2. CASE Exchange
  <2>1. ASSUME NEW i \in Ids, NEW x \in {"new", "failed"}, ServePlace(i, x)
        PROVE  IInv'
    BY <2>1, ServePlaceInv
  <2>2. ASSUME NEW i \in Ids, ServeCancel(i) \/ Trade(i) \/ Outsider(i) \/ Repeat(i)
        PROVE  IInv'
    BY <2>2, ServeCancelInv, TradeInv, OutsiderInv, RepeatInv
  <2>3. CASE ServeQuery
    BY <2>3, ServeQueryInv
  <2> QED BY <1>2, <2>1, <2>2, <2>3 DEF Exchange
<1>3. CASE Stream
  <2>1. ASSUME stream # <<>>, NEW how \in Outcomes,
               NEW done \in SUBSET {Head(stream).id}, NEW bad \in SUBSET {Head(stream).id},
               StreamApply(how, done, bad)
        PROVE  IInv'
    BY <2>1, StreamApplyInv
  <2>2. CASE StreamConnect \/ StreamDrop
    BY <2>2, CallsAndLinkInv
  <2> QED BY <1>3, <2>1, <2>2 DEF Stream
<1>4. CASE UNCHANGED vars
  BY <1>4 DEF vars, memory, store, net, exchange, link, history, IInv, RecordsOK, WorldOK,
     CallOK, FillsAreReal, PlacingPending, NotesSound, Sound, StoreLags, PresumedCanceled,
     TradedSizes, StreamTruthful, AnswerTruthful, Truthful, CallTracks
<1> QED
  BY <1>1, <1>2, <1>3, <1>4 DEF Next

\* Everything below is a consequence of this.
THEOREM Inductive == Spec => []IInv
<1> QED
  BY InitIInv, StepIInv, PTL DEF Spec

\* Every variable keeps its type: no code path assigns an unknown status or a
\* filled size beyond the order, whatever a late or stale report says.
THEOREM TypeCorrect == Spec => []TypeOK
<1>1. IInv => TypeOK
  BY DEF IInv, RecordsOK, WorldOK, CallOK, TypeOK, Causes, PresumedCanceled
<1> QED
  BY <1>1, Inductive, PTL

\* Fills handed to PnL were saved, known and traded, and none is counted twice,
\* also when the store fails to save or the process dies.
THEOREM NoPhantomFill == Spec => []FillsAreReal
<1>1. IInv => FillsAreReal
  BY DEF IInv, RecordsOK
<1> QED
  BY <1>1, Inductive, PTL

\* An own order that can trade is recorded as one that may, in memory and in the
\* store, unless it is recorded CANCELED on the word of a batch cancel's answer:
\* no lost, late or repeated message, failing save or death hides an exposure.
THEOREM ExposureIsRecorded == Spec => []NoInvisibleExposure
<1>1. IInv => NoInvisibleExposure
  <2> SUFFICES ASSUME IInv, NEW i \in Own, Exposed(i), NEW s \in {status[i], savedStatus[i]}
               PROVE  \/ s \in NonTerminal \ {"CREATED"}
                      \/ i \in presumed /\ s = "CANCELED"
    BY DEF NoInvisibleExposure
  <2>1. i \in Ids /\ s \in Statuses \cup {NoRecord} /\ Sound(i, s)
    BY DEF IInv, RecordsOK, NotesSound, Ids
  <2>2. CASE i \in placing
    BY <2>1, <2>2 DEF Sound, NonTerminal
  <2>3. CASE xstate[i] \in XLive
    <3>1. xstate[i] # "none" /\ xstate[i] \notin XFinal
      BY <2>3 DEF XLive, XFinal
    <3> QED BY <2>1, <3>1 DEF Sound, Statuses
  <2> QED BY <2>2, <2>3 DEF Exposed
<1> QED
  BY <1>1, Inductive, PTL

-----------------------------------------------------------------------------
(* What a step does to the records.                                        *)

\* A saved record is never lost, a saved terminal one stays and is remembered,
\* and one that is only in memory is lost at most by a death.
Advances ==
    \A i \in Ids :
        /\ savedStatus[i] # NoRecord => savedStatus'[i] # NoRecord
        /\ savedStatus[i] \in Terminal =>
              savedStatus'[i] = savedStatus[i] /\ status'[i] = savedStatus[i]
        /\ status[i] \in Terminal /\ kills' = kills => status'[i] = status[i]

\* The state machine knows no way out of the known statuses.
LEMMA TransitionsStayKnown ==
    ASSUME NEW c \in Statuses, NEW n, CanTransition(c, n)
    PROVE  n \in Statuses
  BY SMT DEF CanTransition, ValidNext, Statuses, Terminal, NonTerminal

LEMMA LoopAdvances ==
    ASSUME IInv, NEW todo, NEW new, NEW saved, NEW size, NEW done, NEW bad, NEW how,
           Loop(todo, new, saved, size, done, bad, how), how = "killed" => kills' # kills
    PROVE  Advances
<1> SUFFICES ASSUME NEW i \in Ids
             PROVE  /\ savedStatus[i] # NoRecord => savedStatus'[i] # NoRecord
                    /\ savedStatus[i] \in Terminal =>
                          savedStatus'[i] = savedStatus[i] /\ status'[i] = savedStatus[i]
                    /\ status[i] \in Terminal /\ kills' = kills => status'[i] = status[i]
  BY DEF Advances
<1>1. StoreLags /\ status[i] \in Statuses \cup {NoRecord}
  BY DEF IInv, RecordsOK
<1>2. /\ savedStatus[i] \in Terminal => savedStatus'[i] = savedStatus[i] /\ status'[i] = savedStatus[i]
      /\ status[i] \in Terminal /\ how # "killed" => status'[i] = status[i]
  BY <1>1, LoopKeepsTerminal
<1>3. savedStatus[i] # NoRecord => savedStatus'[i] # NoRecord
  <2>1. /\ savedStatus'[i] = IF i \in done THEN saved[i] ELSE savedStatus[i]
        /\ i \in Moved(done, bad, how) => Accepts(i, new[i])
        /\ i \in done => saved[i] = new[i] \/ (saved[i] = "CREATED" /\ status[i] = NoRecord)
    BY LoopMeans DEF Loop
  <2>2. CASE i \in done /\ savedStatus[i] # NoRecord
    <3>1. status[i] # NoRecord
      BY <1>1, <2>2 DEF StoreLags
    <3>2. CanTransition(status[i], new[i]) /\ saved[i] = new[i]
      BY <2>1, <2>2, <3>1, NotARecord DEF Accepts, Moved
    <3>3. new[i] \in Statuses
      BY <1>1, <3>1, <3>2, TransitionsStayKnown
    <3> QED BY <2>1, <2>2, <3>2, <3>3, NotARecord
  <2> QED BY <2>1, <2>2
<1> QED
  BY <1>2, <1>3

\* A loop at whose end a death is counted.
LEMMA LoopEndAdvances ==
    ASSUME IInv, NEW todo, NEW new, NEW size, NEW done, NEW bad, NEW how, NEW op, NEW next,
           LoopEnds(todo, new, done, bad, how), Writes(done, bad, new, size, how),
           Ends(how, op, next)
    PROVE  Advances
<1>1. Loop(todo, new, new, size, done, bad, how)
  BY WritesIsLoop
<1>2. how = "killed" => kills' # kills
  BY DEF Ends, IInv, CallOK
<1> QED
  BY <1>1, <1>2, LoopAdvances

\* What submit_batch writes before its requests go out is a loop.
LEMMA SubmitIsLoop ==
    ASSUME NEW S \in SUBSET {i \in Own : status[i] = NoRecord}, NEW how,
           NEW done \in SUBSET S, NEW bad, NEW half \in SUBSET done,
           NEW begun, SubmitBegin(S, how, done, bad, half, begun)
    PROVE  \E new, saved, size :
              /\ Loop(S, new, saved, size, done, bad, how)
              /\ \A i \in Ids : new[i] \in {"CREATED", "SUBMITTING"}
              /\ \A i \in Ids : saved[i] \in {"CREATED", "SUBMITTING"}
<1> DEFINE saved == [i \in Ids |-> IF i \in half THEN "CREATED" ELSE "SUBMITTING"]
           new == [i \in Ids |-> IF i \in bad \cup (half \ begun) THEN "CREATED" ELSE "SUBMITTING"]
           size == [i \in Ids |-> 0]
<1>1. /\ LoopEnds(S, new, done, bad, how)
      /\ Saves(done, saved, size)
      /\ Remembers(done, bad, new, size, how)
  BY DEF SubmitBegin
<1>2. ASSUME NEW i \in done
      PROVE  saved[i] = new[i] \/ (saved[i] = "CREATED" /\ status[i] = NoRecord)
  <2>1. i \in Ids /\ status[i] = NoRecord
    BY DEF Ids
  <2>2. i \notin bad
    BY <1>1 DEF LoopEnds
  <2> QED BY <2>1, <2>2
<1>3. /\ \A i \in Ids : new[i] \in {"CREATED", "SUBMITTING"}
      /\ \A i \in Ids : saved[i] \in {"CREATED", "SUBMITTING"}
  OBVIOUS
<1> HIDE DEF new, saved, size
<1> QED
  BY <1>1, <1>2, <1>3 DEF Loop

LEMMA StepAdvances ==
    ASSUME IInv, [Next]_vars
    PROVE  Advances
<1>1. CASE UNCHANGED <<memory, store>>
  <2>1. \A i \in Ids : savedStatus[i] \in Terminal => status[i] = savedStatus[i]
    BY DEF IInv, RecordsOK, StoreLags
  <2> QED BY <1>1, <2>1 DEF Advances, memory, store
<1>2. CASE Engine
  <2>1. ASSUME NEW S \in SUBSET {i \in Own : status[i] = NoRecord}, NEW how,
               NEW done \in SUBSET S, NEW bad, NEW half \in SUBSET done, NEW begun,
               SubmitBegin(S, how, done, bad, half, begun)
        PROVE  Advances
    <3>1. how = "killed" => kills' # kills
      BY <2>1 DEF SubmitBegin, Ends, IInv, CallOK
    <3>2. PICK new, saved, size : Loop(S, new, saved, size, done, bad, how)
      BY <2>1, SubmitIsLoop
    <3> QED BY <3>1, <3>2, LoopAdvances
  <2>2. ASSUME NEW S, NEW done, NEW how, CancelBegin(S, done, how)
        PROVE  Advances
    BY <2>2, LoopEndAdvances DEF CancelBegin
  <2>3. ASSUME NEW acked, NEW done, NEW how, SubmitAnswered(acked, done, how)
        PROVE  Advances
    BY <2>3, LoopEndAdvances DEF SubmitAnswered
  <2>4. ASSUME NEW answered, NEW exception, NEW done, NEW how,
               CancelAnswered(answered, exception, done, how)
        PROVE  Advances
    BY <2>4, LoopEndAdvances DEF CancelAnswered
  <2>5. ASSUME NEW done, NEW bad, NEW how, ReconcileApply(done, bad, how)
        PROVE  Advances
    BY <2>5, LoopEndAdvances DEF ReconcileApply
  <2>6. ASSUME NEW r, NEW how, NEW done, NEW bad, RepairApply(r, done, bad, how)
        PROVE  Advances
    BY <2>6, LoopEndAdvances DEF RepairApply
  <2>7. CASE \/ \E symbol \in Symbols : AskOpenOrders(symbol)
             \/ QueryFails \/ \E i \in Ids : AskOrder(i)
    BY <1>1, <2>7 DEF AskOpenOrders, QueryFails, AskOrder
  <2>8. CASE Kill
    <3>1. LoopEnds({}, status, {}, {}, "killed")
      BY DEF LoopEnds
    <3> QED BY <2>8, <3>1, LoopEndAdvances DEF Kill
  <2> QED BY <1>2, <2>1, <2>2, <2>3, <2>4, <2>5, <2>6, <2>7, <2>8 DEF Engine
<1>3. CASE Exchange
  BY <1>1, <1>3
     DEF Exchange, ServePlace, ServeCancel, Trade, Outsider, Repeat, ServeQuery
<1>4. CASE Stream
  <2>1. ASSUME NEW how, NEW done, NEW bad, StreamApply(how, done, bad)
        PROVE  Advances
    <3> DEFINE m == Head(stream)
               new == [i \in Ids |-> IF status[i] = NoRecord THEN "UNKNOWN" ELSE m.status]
               size == [i \in Ids |-> Higher(filled[i], m.filled)]
    <3>1. how # "killed" /\ LoopEnds({m.id}, new, done, bad, how) /\ Writes(done, bad, new, size, how)
      BY <2>1 DEF StreamApply
    <3> HIDE DEF m, new, size
    <3>2. Loop({m.id}, new, new, size, done, bad, how)
      BY <3>1, WritesIsLoop
    <3> QED BY <3>1, <3>2, LoopAdvances
  <2> QED BY <1>1, <1>4, <2>1 DEF Stream, StreamConnect, StreamDrop
<1> QED
  BY <1>1, <1>2, <1>3, <1>4 DEF Next, vars

\* A terminal status is final: saved, it is what memory says and what every
\* restart finds; unsaved, only a restart can lose it.
THEOREM TerminalStatusIsFinal == Spec => TerminalIsFinal
<1>1. ASSUME IInv, [Next]_vars
      PROVE  [\A i \in Ids :
                 /\ savedStatus[i] \in Terminal =>
                       savedStatus'[i] = savedStatus[i] /\ status'[i] = savedStatus[i]
                 /\ status[i] \in Terminal /\ kills' = kills => status'[i] = status[i]]_vars
  BY <1>1, StepAdvances DEF Advances
<1> QED
  BY <1>1, Inductive, PTL DEF Spec, TerminalIsFinal

-----------------------------------------------------------------------------
(* Refinement: the store is an exposure ledger.                            *)

\* The orders of a submit call in flight were saved before it was made.
SubmittedRecorded == call.op = "submit" => \A i \in call.ids : savedStatus[i] # NoRecord

LEMMA StepSubmittedRecorded ==
    ASSUME IInv, SubmittedRecorded, [Next]_vars
    PROVE  SubmittedRecorded'
<1>1. Advances
  BY StepAdvances
<1>2. call.ids \subseteq Ids
  BY DEF IInv, CallOK, CallType
<1>3. CASE call'.op # "submit" \/ (call'.op = call.op /\ call'.ids = call.ids)
  BY <1>1, <1>2, <1>3 DEF SubmittedRecorded, Advances
<1>4. ASSUME NEW S \in SUBSET {i \in Own : status[i] = NoRecord}, NEW how,
             NEW done \in SUBSET S, NEW bad, NEW half \in SUBSET done, NEW begun,
             SubmitBegin(S, how, done, bad, half, begun)
      PROVE  SubmittedRecorded'
  <2>1. Ends(how, "submit", NewCall("submit", S))
    BY <1>4 DEF SubmitBegin
  <2>2. CASE how # "returned"
    BY <2>1, <2>2 DEF Ends, Idle, NewCall, SubmittedRecorded
  <2>3. CASE how = "returned"
    <3>1. PICK new, saved, size :
             /\ Loop(S, new, saved, size, done, bad, how)
             /\ \A i \in Ids : saved[i] \in {"CREATED", "SUBMITTING"}
      BY <1>4, SubmitIsLoop
    <3>2. done = S /\ call'.ids = S
      BY <2>1, <2>3, <3>1 DEF Loop, LoopEnds, Ends, NewCall
    <3>3. ASSUME NEW i \in S
          PROVE  savedStatus'[i] # NoRecord
      <4>1. i \in Ids
        BY DEF Ids
      <4>2. savedStatus'[i] = saved[i]
        BY <3>1, <3>2, <4>1, LoopMeans
      <4> QED BY <3>1, <4>1, <4>2 DEF NoRecord
    <3> QED BY <3>2, <3>3 DEF SubmittedRecorded
  <2> QED BY <2>2, <2>3
<1>5. CASE Engine
  <2>1. CASE \E S \in (SUBSET {i \in Own : status[i] = NoRecord}) \ {{}}, how \in Outcomes :
                \E done, bad \in SUBSET S :
                   \E half \in SUBSET done : \E begun \in SUBSET half :
                      SubmitBegin(S, how, done, bad, half, begun)
    BY <1>4, <2>1
  <2>2. ASSUME NEW S, NEW done, NEW how, CancelBegin(S, done, how)
        PROVE  call'.op # "submit"
    BY <2>2 DEF CancelBegin, Ends, Idle, NewCall
  <2>3. ASSUME NEW acked, NEW done, NEW how, SubmitAnswered(acked, done, how)
        PROVE  call'.op # "submit"
    BY <2>3 DEF SubmitAnswered, Ends, Idle, NewCall
  <2>4. ASSUME NEW answered, NEW exception, NEW done, NEW how,
               CancelAnswered(answered, exception, done, how)
        PROVE  call'.op # "submit"
    BY <2>4 DEF CancelAnswered, Ends, Idle, NewCall
  <2>5. ASSUME NEW done, NEW bad, NEW how, ReconcileApply(done, bad, how)
        PROVE  call'.op # "submit"
    BY <2>5 DEF ReconcileApply, Ends, Idle, NewCall
  <2>6. ASSUME NEW r, NEW how, NEW done, NEW bad, RepairApply(r, done, bad, how)
        PROVE  call'.op # "submit"
    BY <2>6 DEF RepairApply, Ends, Idle, NewCall
  <2>7. CASE \/ \E symbol \in Symbols : AskOpenOrders(symbol)
             \/ QueryFails \/ (\E i \in Ids : AskOrder(i)) \/ Kill
    BY <1>3, <2>7 DEF AskOpenOrders, QueryFails, AskOrder, Kill, Ends, Idle, NewCall
  <2> QED BY <1>3, <1>5, <2>1, <2>2, <2>3, <2>4, <2>5, <2>6, <2>7 DEF Engine
<1>6. CASE Exchange
  <2>1. ASSUME NEW i, NEW x, ServePlace(i, x)
        PROVE  call'.op = call.op /\ call'.ids = call.ids
    BY <2>1 DEF ServePlace, IInv, CallOK, CallType
  <2>2. ASSUME NEW i, ServeCancel(i)
        PROVE  call'.op = call.op /\ call'.ids = call.ids
    BY <2>2 DEF ServeCancel, IInv, CallOK, CallType
  <2>3. CASE \E i \in Ids : Trade(i) \/ Outsider(i) \/ Repeat(i)
    BY <1>3, <2>3 DEF Trade, Outsider, Repeat
  <2>4. CASE ServeQuery
    BY <1>3, <2>4 DEF ServeQuery, Answered
  <2> QED BY <1>3, <1>6, <2>1, <2>2, <2>3, <2>4 DEF Exchange
<1>7. CASE Stream \/ UNCHANGED vars
  BY <1>3, <1>7 DEF Stream, StreamApply, StreamConnect, StreamDrop, vars
<1> QED
  BY <1>5, <1>6, <1>7 DEF Next

LEMMA SubmittedAlwaysRecorded == Spec => []SubmittedRecorded
<1>1. Init => SubmittedRecorded
  BY DEF Init, Idle, NewCall, SubmittedRecorded
<1> QED
  BY <1>1, StepSubmittedRecorded, Inductive, PTL DEF Spec

\* The ledger's view of an order: entered, closed for a fact, or for a word.
Entered(i) == savedStatus[i] \in NonTerminal
ClosedFor(i) == savedStatus[i] \in Terminal /\ ~(savedStatus[i] = "CANCELED" /\ i \in presumed)
PresumedOver(i) == savedStatus[i] = "CANCELED" /\ i \in presumed
AnsweredFor(i) == call.op = "cancel" /\ i \in call.served

LEMMA LedgerView ==
    /\ {i \in Own : savedStatus[i] \in Terminal \ {"CANCELED"}}
         \cup {i \in Own \ presumed : savedStatus[i] = "CANCELED"} = {i \in Own : ClosedFor(i)}
    /\ {i \in Own \cap presumed : savedStatus[i] = "CANCELED"} = {i \in Own : PresumedOver(i)}
    /\ {i \in Own : savedStatus[i] \in NonTerminal} = {i \in Own : Entered(i)}
    /\ {i \in Own : call.op = "cancel" /\ i \in call.served} = {i \in Own : AnsweredFor(i)}
  BY NotARecord DEF ClosedFor, PresumedOver, Entered, AnsweredFor

LEMMA LedgerViewNext ==
    /\ {i \in Own : savedStatus'[i] \in Terminal \ {"CANCELED"}}
         \cup {i \in Own \ presumed' : savedStatus'[i] = "CANCELED"} = {i \in Own : ClosedFor(i)'}
    /\ {i \in Own \cap presumed' : savedStatus'[i] = "CANCELED"} = {i \in Own : PresumedOver(i)'}
    /\ {i \in Own : savedStatus'[i] \in NonTerminal} = {i \in Own : Entered(i)'}
    /\ {i \in Own : call'.op = "cancel" /\ i \in call'.served} = {i \in Own : AnsweredFor(i)'}
  BY NotARecord DEF ClosedFor, PresumedOver, Entered, AnsweredFor

\* An order is in one of these views, or it is not recorded at all.
LEMMA OneView ==
    ASSUME NEW i, savedStatus[i] \in Statuses \cup {NoRecord}
    PROVE  /\ savedStatus[i] = NoRecord <=> ~Entered(i) /\ ~ClosedFor(i) /\ ~PresumedOver(i)
           /\ ~(Entered(i) /\ ClosedFor(i))
           /\ ~(Entered(i) /\ PresumedOver(i))
           /\ ~(ClosedFor(i) /\ PresumedOver(i))
  BY DEF Entered, ClosedFor, PresumedOver, Statuses, Terminal, NonTerminal, NoRecord

LEMMA OneViewNext ==
    ASSUME NEW i, savedStatus'[i] \in Statuses \cup {NoRecord}
    PROVE  /\ savedStatus'[i] = NoRecord <=> ~Entered(i)' /\ ~ClosedFor(i)' /\ ~PresumedOver(i)'
           /\ ~(Entered(i)' /\ ClosedFor(i)')
           /\ ~(Entered(i)' /\ PresumedOver(i)')
           /\ ~(ClosedFor(i)' /\ PresumedOver(i)')
  BY DEF Entered, ClosedFor, PresumedOver, Statuses, Terminal, NonTerminal, NoRecord

\* What the end of a call does to an order that is saved as CANCELED: nothing.
LEMMA PresumedStays ==
    ASSUME IInv, Advances, NEW how, NEW op, NEW next, Ends(how, op, next),
           NEW i \in Ids, savedStatus[i] = "CANCELED"
    PROVE  i \in presumed' <=> i \in presumed
<1>1. status[i] = "CANCELED" /\ status'[i] = "CANCELED"
  BY NotARecord DEF IInv, RecordsOK, StoreLags, Advances
<1> QED
  BY <1>1, NotARecord DEF Ends

\* Steps that send nothing and settle nothing only close entries.
LEMMA LoopCloses ==
    ASSUME IInv, IInv', Advances, UNCHANGED <<placing, exchange>>,
           \A i \in Own : savedStatus[i] = NoRecord => savedStatus'[i] = NoRecord,
           \A i \in Own : savedStatus[i] = "CANCELED" /\ i \in presumed' => i \in presumed,
           \A i \in Own : Entered(i) /\ PresumedOver(i)' => AnsweredFor(i),
           (\A i \in Own : AnsweredFor(i)' <=> AnsweredFor(i)) \/ \A i \in Own : ~AnsweredFor(i)'
    PROVE  Ledger!Next
<1>1. ASSUME NEW i \in Own
      PROVE  /\ Entered(i)' => Entered(i)
             /\ ClosedFor(i) => ClosedFor(i)'
             /\ PresumedOver(i) => PresumedOver(i)' \/ ClosedFor(i)'
             /\ Entered(i) => Entered(i)' \/ PresumedOver(i)' \/ ClosedFor(i)'
             /\ ClosedFor(i)' => ClosedFor(i) \/ Entered(i) \/ PresumedOver(i)
             /\ PresumedOver(i)' => Entered(i) \/ PresumedOver(i)
             /\ ClosedFor(i)' => ~Exposed(i)
             /\ Exposed(i)' <=> Exposed(i)
             /\ ~(Entered(i) /\ ClosedFor(i)) /\ ~(Entered(i)' /\ ClosedFor(i)')
             /\ ~(Entered(i) /\ PresumedOver(i)) /\ ~(Entered(i)' /\ PresumedOver(i)')
             /\ ~(ClosedFor(i) /\ PresumedOver(i)) /\ ~(ClosedFor(i)' /\ PresumedOver(i)')
  <2>1. /\ i \in Ids
        /\ savedStatus[i] \in Statuses \cup {NoRecord}
        /\ savedStatus'[i] \in Statuses \cup {NoRecord}
    BY DEF IInv, RecordsOK, Ids
  <2>2. /\ savedStatus[i] = NoRecord <=> savedStatus'[i] = NoRecord
        /\ savedStatus[i] \in Terminal => savedStatus'[i] = savedStatus[i]
    BY <2>1, NotARecord DEF Advances
  <2>3. Exposed(i)' <=> Exposed(i)
    BY DEF Exposed, exchange
  <2>4. ClosedFor(i)' => ~Exposed(i)
    <3>1. Sound(i, savedStatus[i])'
      BY <2>1 DEF IInv, RecordsOK, NotesSound
    <3>2. ClosedFor(i)' => xstate[i] \in XFinal /\ i \notin placing
      BY <3>1 DEF Sound, ClosedFor, exchange, Terminal
    <3> QED BY <3>2 DEF Exposed, XFinal, XLive
  <2>5. ClosedFor(i) => ClosedFor(i)'
    BY <2>2 DEF ClosedFor
  <2>6. PresumedOver(i) => PresumedOver(i)' \/ ClosedFor(i)'
    BY <2>2, NotARecord DEF PresumedOver, ClosedFor
  <2>7. Entered(i)' => Entered(i)
    <3>1. savedStatus[i] \in Terminal => ~Entered(i)'
      BY <2>2 DEF Entered, Terminal, NonTerminal
    <3>2. savedStatus[i] = NoRecord => ~Entered(i)'
      BY <2>2 DEF Entered, NoRecord, NonTerminal
    <3> QED BY <2>1, <3>1, <3>2 DEF Entered, Statuses
  <2>8. /\ savedStatus[i] = NoRecord <=> ~Entered(i) /\ ~ClosedFor(i) /\ ~PresumedOver(i)
        /\ ~(Entered(i) /\ ClosedFor(i))
        /\ ~(Entered(i) /\ PresumedOver(i))
        /\ ~(ClosedFor(i) /\ PresumedOver(i))
    BY <2>1, OneView
  <2>9. /\ savedStatus'[i] = NoRecord <=> ~Entered(i)' /\ ~ClosedFor(i)' /\ ~PresumedOver(i)'
        /\ ~(Entered(i)' /\ ClosedFor(i)')
        /\ ~(Entered(i)' /\ PresumedOver(i)')
        /\ ~(ClosedFor(i)' /\ PresumedOver(i)')
    BY <2>1, OneViewNext
  <2>10. PresumedOver(i)' => Entered(i) \/ PresumedOver(i)
    BY <2>2, <2>5, <2>8, <2>9
  <2> QED BY <2>2, <2>3, <2>4, <2>5, <2>6, <2>7, <2>8, <2>9, <2>10
<1>2. PICK over, word \in SUBSET Own :
         /\ over = {i \in Own : ClosedFor(i)' /\ ~ClosedFor(i)}
         /\ word = {i \in Own : PresumedOver(i)' /\ ~PresumedOver(i)}
  <2> DEFINE o == {i \in Own : ClosedFor(i)' /\ ~ClosedFor(i)}
             w == {i \in Own : PresumedOver(i)' /\ ~PresumedOver(i)}
  <2>1. o \in SUBSET Own /\ w \in SUBSET Own
    OBVIOUS
  <2> QED BY <2>1
<1>3. Ledger!Close(over, word)
  <2>1. over \subseteq ({i \in Own : Entered(i)} \cup {i \in Own : PresumedOver(i)})
                         \ {i \in Own : Exposed(i)}
    BY <1>1, <1>2
  <2>2. word \subseteq ({i \in Own : Entered(i)} \cap {i \in Own : AnsweredFor(i)}) \ over
    BY <1>1, <1>2
  <2>3. {i \in Own : Entered(i)'} = {i \in Own : Entered(i)} \ (over \cup word)
    BY <1>1, <1>2
  <2>4. {i \in Own : ClosedFor(i)'} = {i \in Own : ClosedFor(i)} \cup over
    BY <1>1, <1>2
  <2>5. {i \in Own : PresumedOver(i)'} = ({i \in Own : PresumedOver(i)} \ over) \cup word
    BY <1>1, <1>2
  <2>6. {i \in Own : Exposed(i)'} = {i \in Own : Exposed(i)}
    BY <1>1
  <2>7. {i \in Own : AnsweredFor(i)'} \in {{i \in Own : AnsweredFor(i)}, {}}
    <3>1. CASE \A i \in Own : AnsweredFor(i)' <=> AnsweredFor(i)
      BY <3>1
    <3>2. CASE \A i \in Own : ~AnsweredFor(i)'
      BY <3>2
    <3> QED BY <3>1, <3>2
  <2> QED BY <2>1, <2>2, <2>3, <2>4, <2>5, <2>6, <2>7, LedgerView, LedgerViewNext DEF Ledger!Close
<1> QED
  BY <1>3 DEF Ledger!Next

\* Orders are written down; those of `sent` are let out.
LEMMA LoopPlaces ==
    ASSUME NEW done \in SUBSET Own, NEW sent \in SUBSET done,
           \A i \in done : ~Entered(i) /\ ~ClosedFor(i) /\ ~PresumedOver(i) /\ Entered(i)',
           \A i \in Own \ done : Entered(i)' <=> Entered(i),
           \A i \in Own : /\ ClosedFor(i)' <=> ClosedFor(i)
                          /\ PresumedOver(i)' <=> PresumedOver(i)
                          /\ AnsweredFor(i)' <=> AnsweredFor(i)
                          /\ Exposed(i)' <=> Exposed(i) \/ i \in sent
    PROVE  Ledger!Next
<1>1. done \cap ({i \in Own : Entered(i)} \cup {i \in Own : ClosedFor(i)}
                  \cup {i \in Own : PresumedOver(i)}) = {}
  OBVIOUS
<1>2. {i \in Own : Entered(i)'} = {i \in Own : Entered(i)} \cup done
  OBVIOUS
<1>3. {i \in Own : Exposed(i)'} = {i \in Own : Exposed(i)} \cup sent
  OBVIOUS
<1>4. /\ {i \in Own : ClosedFor(i)'} = {i \in Own : ClosedFor(i)}
      /\ {i \in Own : PresumedOver(i)'} = {i \in Own : PresumedOver(i)}
      /\ {i \in Own : AnsweredFor(i)'} = {i \in Own : AnsweredFor(i)}
  OBVIOUS
<1>5. Ledger!Place(done, sent)
  BY <1>1, <1>2, <1>3, <1>4, LedgerView, LedgerViewNext DEF Ledger!Place
<1>6. done \in SUBSET Own /\ sent \in SUBSET Own
  OBVIOUS
<1> QED
  BY <1>5, <1>6 DEF Ledger!Next

\* A move on the exchange settles an order or does not show in the ledger.
LEMMA MovesSettles ==
    ASSUME IInv, NEW i \in Ids, NEW x, NEW n, Moves(i, x, n), UNCHANGED <<savedStatus, presumed>>,
           placing' \subseteq placing, placing \subseteq placing' \cup {i},
           i \in Own => Exposed(i),
           \A j \in Own : AnsweredFor(j)' <=> AnsweredFor(j)
    PROVE  [Ledger!Next]_(Ledger!vars)
<1>1. \A j \in Ids : j # i => xstate'[j] = xstate[j]
  BY DEF Moves, IInv, WorldOK
<1>2. ASSUME NEW j \in Own
      PROVE  /\ j # i => (Exposed(j)' <=> Exposed(j))
             /\ j = i => Exposed(j)
  BY <1>1 DEF Exposed, Ids
<1>0. /\ {j \in Own : AnsweredFor(j)'} = {j \in Own : AnsweredFor(j)}
      /\ {j \in Own : call'.op = "cancel" /\ j \in call'.served}
           = {j \in Own : call.op = "cancel" /\ j \in call.served}
  BY LedgerView, LedgerViewNext
<1>3. CASE i \in Own /\ ~Exposed(i)'
  <2>1. {j \in Own : Exposed(j)}' = {j \in Own : Exposed(j)} \ {i}
    BY <1>2, <1>3
  <2>2. i \in {j \in Own : Exposed(j)}
    BY <1>3
  <2>3. Ledger!Settle(i)
    BY <1>0, <2>1, <2>2 DEF Ledger!Settle
  <2> QED BY <1>3, <2>3 DEF Ledger!Next
<1>4. CASE i \notin Own \/ Exposed(i)'
  <2>1. {j \in Own : Exposed(j)}' = {j \in Own : Exposed(j)}
    BY <1>2, <1>4
  <2> QED BY <1>0, <2>1 DEF Ledger!vars
<1> QED
  BY <1>3, <1>4

\* A saving loop at the end of a call: what the ledger sees of it.
LEMMA EndCloses ==
    ASSUME IInv, IInv', Advances, UNCHANGED <<placing, exchange>>,
           NEW todo, NEW new, NEW size, NEW done, NEW bad, NEW how, NEW op, NEW next,
           LoopEnds(todo, new, done, bad, how), Writes(done, bad, new, size, how),
           Ends(how, op, next), next.served = {},
           \A i \in done \cap Own : savedStatus[i] # NoRecord,
           \A i \in done \cap Own : new[i] = "CANCELED" /\ i \in presumed' => AnsweredFor(i)
    PROVE  Ledger!Next
<1>0. Loop(todo, new, new, size, done, bad, how)
  BY WritesIsLoop
<1>1. ASSUME NEW i \in Own
      PROVE  /\ i \in Ids
             /\ savedStatus'[i] = IF i \in done THEN new[i] ELSE savedStatus[i]
  <2>1. i \in Ids
    BY DEF Ids
  <2> QED BY <1>0, <2>1, LoopMeans
<1>2. \A i \in Own : savedStatus[i] = NoRecord => savedStatus'[i] = NoRecord
  BY <1>1
<1>3. \A i \in Own : savedStatus[i] = "CANCELED" /\ i \in presumed' => i \in presumed
  BY <1>1, PresumedStays
<1>4. \A i \in Own : Entered(i) /\ PresumedOver(i)' => AnsweredFor(i)
  <2> SUFFICES ASSUME NEW i \in Own, Entered(i), PresumedOver(i)'
               PROVE  AnsweredFor(i)
    OBVIOUS
  <2>1. savedStatus'[i] = "CANCELED" /\ i \in presumed' /\ savedStatus[i] # "CANCELED"
    BY DEF PresumedOver, Entered, NonTerminal
  <2>2. i \in done /\ new[i] = "CANCELED"
    BY <1>1, <2>1
  <2> QED BY <2>1, <2>2
<1>5. \A i \in Own : ~AnsweredFor(i)'
  BY IdleIsCall DEF Ends, AnsweredFor
<1> QED
  BY <1>2, <1>3, <1>4, <1>5, LoopCloses

\* Orders are saved, and only then let out.
LEMMA SubmitPlaces ==
    ASSUME IInv, Advances, NEW S \in SUBSET {i \in Own : status[i] = NoRecord}, NEW how,
           NEW done \in SUBSET S, NEW bad, NEW half \in SUBSET done, NEW begun,
           SubmitBegin(S, how, done, bad, half, begun)
    PROVE  Ledger!Next
<1>1. PICK sent \in SUBSET S : sent = IF how = "returned" THEN S ELSE {}
  OBVIOUS
<1>2. PICK new, saved, size :
         /\ Loop(S, new, saved, size, done, bad, how)
         /\ \A i \in Ids : saved[i] \in {"CREATED", "SUBMITTING"}
  BY SubmitIsLoop
<1>3. /\ call = Idle /\ Ends(how, "submit", NewCall("submit", S))
      /\ placing' = IF how = "returned" THEN placing \cup S ELSE placing
      /\ UNCHANGED exchange
  BY DEF SubmitBegin
<1>4. sent \subseteq done /\ done \in SUBSET Own
  BY <1>1, <1>2 DEF Loop, LoopEnds
<1>5. ASSUME NEW i \in Own
      PROVE  /\ i \in Ids
             /\ i \in done => savedStatus[i] = NoRecord /\ savedStatus'[i] \in NonTerminal
             /\ i \notin done => savedStatus'[i] = savedStatus[i]
             /\ savedStatus[i] = "CANCELED" => (i \in presumed' <=> i \in presumed)
             /\ Exposed(i)' <=> Exposed(i) \/ i \in sent
             /\ ~AnsweredFor(i) /\ ~AnsweredFor(i)'
  <2>1. i \in Ids
    BY DEF Ids
  <2>2. savedStatus'[i] = IF i \in done THEN saved[i] ELSE savedStatus[i]
    BY <1>2, <2>1, LoopMeans
  <2>3. i \in done => savedStatus[i] = NoRecord /\ savedStatus'[i] \in NonTerminal
    BY <1>2, <2>1, <2>2 DEF NonTerminal, IInv, RecordsOK, StoreLags
  <2>4. Exposed(i)' <=> Exposed(i) \/ i \in sent
    BY <1>1, <1>3 DEF Exposed, exchange
  <2>5. ~AnsweredFor(i) /\ ~AnsweredFor(i)'
    BY <1>3, IdleIsCall DEF AnsweredFor, Ends, NewCall
  <2> QED BY <1>3, <2>1, <2>2, <2>3, <2>4, <2>5, PresumedStays
<1>6. /\ \A i \in done : ~Entered(i) /\ ~ClosedFor(i) /\ ~PresumedOver(i) /\ Entered(i)'
                         /\ ~ClosedFor(i)' /\ ~PresumedOver(i)'
      /\ \A i \in Own \ done : Entered(i)' <=> Entered(i)
  BY <1>4, <1>5 DEF Entered, ClosedFor, PresumedOver, NonTerminal, Terminal, NoRecord
<1>7. \A i \in Own : /\ ClosedFor(i)' <=> ClosedFor(i)
                     /\ PresumedOver(i)' <=> PresumedOver(i)
                     /\ AnsweredFor(i)' <=> AnsweredFor(i)
                     /\ Exposed(i)' <=> Exposed(i) \/ i \in sent
  <2> SUFFICES ASSUME NEW i \in Own
               PROVE  (ClosedFor(i)' <=> ClosedFor(i)) /\ (PresumedOver(i)' <=> PresumedOver(i))
    BY <1>5
  <2>1. CASE i \in done
    BY <1>6, <2>1
  <2>2. CASE i \notin done
    BY <1>5, <2>2 DEF ClosedFor, PresumedOver
  <2> QED BY <2>1, <2>2
<1> QED
  BY <1>4, <1>6, <1>7, LoopPlaces

\* A reconciliation closes nothing, since what it lists is live; it may save an
\* order for the first time that the store failed to save and that was never sent.
LEMMA ReconcilePlaces ==
    ASSUME IInv, Advances, NEW done \in SUBSET Ids, NEW bad, NEW how,
           ReconcileApply(done, bad, how)
    PROVE  Ledger!Next
<1> DEFINE seen == {r.id : r \in call.answer}
           rep == [i \in seen |-> CHOOSE r \in call.answer : r.id = i]
           missing == Missing(seen)
           new == [i \in Ids |-> IF i \in seen /\ status[i] # NoRecord THEN rep[i].status
                                 ELSE "UNKNOWN"]
           size == [i \in Ids |-> IF i \in seen THEN Higher(filled[i], rep[i].filled)
                                  ELSE filled[i]]
<1>1. /\ call.op = "got_open"
      /\ LoopEnds(seen \cup missing, new, done, bad, how)
      /\ Writes(done, bad, new, size, how)
      /\ Ends(how, "reconcile", Idle)
      /\ UNCHANGED <<net, exchange, booked>>
  BY DEF ReconcileApply
<1>2. \A i \in Ids : new[i] \in NonTerminal
  <2>1. \A i \in seen : rep[i] \in call.answer
    OBVIOUS
  <2>2. \A r \in call.answer : r.status \in NonTerminal
    BY <1>1 DEF IInv, CallOK, CallTracks, AnswerTruthful, Truthful, Reported, Terminal, NonTerminal
  <2>3. "UNKNOWN" \in NonTerminal
    BY DEF NonTerminal
  <2> QED BY <2>1, <2>2, <2>3
<1> HIDE DEF seen, rep, missing, new, size
<1>3. ASSUME NEW i \in Own
      PROVE  /\ i \in Ids
             /\ savedStatus[i] \in Statuses \cup {NoRecord}
             /\ savedStatus'[i] = IF i \in done THEN new[i] ELSE savedStatus[i]
             /\ i \in done => savedStatus[i] \notin Terminal /\ savedStatus'[i] \in NonTerminal
             /\ savedStatus[i] = "CANCELED" => (i \in presumed' <=> i \in presumed)
             /\ Exposed(i)' <=> Exposed(i)
             /\ ~AnsweredFor(i) /\ ~AnsweredFor(i)'
  <2>1. i \in Ids /\ savedStatus[i] \in Statuses \cup {NoRecord}
    BY DEF Ids, IInv, RecordsOK
  <2>2. savedStatus'[i] = IF i \in done THEN new[i] ELSE savedStatus[i]
    BY <1>1, <2>1 DEF Writes, Saves, Updated
  <2>3. i \in done => savedStatus'[i] \in NonTerminal
    BY <1>2, <2>1, <2>2
  <2>4. i \in done => savedStatus[i] \notin Terminal
    BY <2>1, <2>3 DEF Advances, Terminal, NonTerminal
  <2>5. Exposed(i)' <=> Exposed(i)
    BY <1>1 DEF Exposed, exchange, net
  <2>6. ~AnsweredFor(i) /\ ~AnsweredFor(i)'
    BY <1>1, IdleIsCall DEF AnsweredFor, Ends
  <2> QED BY <1>1, <2>1, <2>2, <2>3, <2>4, <2>5, <2>6, PresumedStays
<1>4. PICK placed \in SUBSET Own : placed = {i \in Own \cap done : savedStatus[i] = NoRecord}
  <2>1. {i \in Own \cap done : savedStatus[i] = NoRecord} \in SUBSET Own
    OBVIOUS
  <2> QED BY <2>1
<1>5. \A i \in placed : ~Entered(i) /\ ~ClosedFor(i) /\ ~PresumedOver(i) /\ Entered(i)'
  BY <1>3, <1>4 DEF Entered, ClosedFor, PresumedOver, NonTerminal, Terminal, NoRecord
<1>6. ASSUME NEW i \in Own \ placed
      PROVE  Entered(i)' <=> Entered(i)
  <2>1. CASE i \in done
    <3>1. savedStatus[i] # NoRecord /\ savedStatus[i] \notin Terminal
      BY <1>3, <1>4, <2>1
    <3>2. savedStatus[i] \in NonTerminal /\ savedStatus'[i] \in NonTerminal
      BY <1>3, <2>1, <3>1 DEF Statuses
    <3> QED BY <3>2 DEF Entered
  <2>2. CASE i \notin done
    BY <1>3, <2>2 DEF Entered
  <2> QED BY <2>1, <2>2
<1>7. ASSUME NEW i \in Own
      PROVE  (ClosedFor(i)' <=> ClosedFor(i)) /\ (PresumedOver(i)' <=> PresumedOver(i))
  <2>1. CASE i \in done
    BY <1>3, <2>1 DEF ClosedFor, PresumedOver, Terminal, NonTerminal
  <2>2. CASE i \notin done
    BY <1>3, <2>2 DEF ClosedFor, PresumedOver
  <2> QED BY <2>1, <2>2
<1>8. PICK sent \in SUBSET placed : sent = {}
  OBVIOUS
<1> QED
  BY <1>3, <1>5, <1>6, <1>7, <1>8, LoopPlaces

\* A served cancel request is an answer, or the business of nobody any more.
LEMMA CancelAnswers ==
    ASSUME IInv, NEW i \in Ids, ServeCancel(i)
    PROVE  [Ledger!Next]_(Ledger!vars)
<1>1. /\ UNCHANGED <<memory, store, placing, history>>
      /\ call' = [call EXCEPT !.served =
                    IF call.op = "cancel" /\ i \in call.ids THEN @ \cup {i} ELSE @]
      /\ Cancels(i) \/ UNCHANGED <<exchange, link>>
  BY DEF ServeCancel
<1>2. savedStatus' = savedStatus /\ presumed' = presumed
  BY <1>1 DEF store, history
<1>3. /\ call'.op = call.op
      /\ call'.served = IF call.op = "cancel" /\ i \in call.ids THEN call.served \cup {i}
                        ELSE call.served
  BY <1>1 DEF IInv, CallOK, CallType
<1>4. CASE ~(i \in Own /\ call.op = "cancel" /\ i \in call.ids)
  <2>1. \A j \in Own : AnsweredFor(j)' <=> AnsweredFor(j)
    BY <1>3, <1>4 DEF AnsweredFor
  <2>2. CASE Cancels(i)
    BY <1>1, <1>2, <2>1, <2>2, MovesSettles DEF Cancels, Exposed
  <2>3. CASE UNCHANGED <<exchange, link>>
    <3>1. {j \in Own : Exposed(j)}' = {j \in Own : Exposed(j)}
      BY <1>1, <2>3 DEF Exposed, exchange
    <3>2. {j \in Own : call'.op = "cancel" /\ j \in call'.served}
            = {j \in Own : call.op = "cancel" /\ j \in call.served}
      BY <2>1, LedgerView, LedgerViewNext
    <3> QED BY <1>2, <3>1, <3>2 DEF Ledger!vars
  <2> QED BY <1>1, <2>2, <2>3
<1>5. CASE i \in Own /\ call.op = "cancel" /\ i \in call.ids
  <2>1. i \in {j \in Own : Entered(j)} \cup {j \in Own : ClosedFor(j)}
                \cup {j \in Own : PresumedOver(j)}
    <3>1. xstate[i] # "none" /\ Sound(i, savedStatus[i]) /\ savedStatus[i] \in Statuses \cup {NoRecord}
      BY <1>5 DEF IInv, CallOK, CallTracks, RecordsOK, NotesSound
    <3>2. savedStatus[i] # NoRecord
      BY <1>5, <3>1 DEF Sound
    <3> QED BY <1>5, <3>1, <3>2, OneView
  <2>2. {j \in Own : AnsweredFor(j)'} = {j \in Own : AnsweredFor(j)} \cup {i}
    BY <1>3, <1>5 DEF AnsweredFor
  <2>3. {j \in Own : Exposed(j)}' \in {{j \in Own : Exposed(j)}, {j \in Own : Exposed(j)} \ {i}}
    <3>1. CASE Cancels(i)
      <4>1. \A j \in Ids : j # i => xstate'[j] = xstate[j]
        BY <3>1 DEF Cancels, Moves, IInv, WorldOK
      <4>2. xstate'[i] \in {"canceled", "partially_canceled"}
        BY <3>1 DEF Cancels, Moves, IInv, WorldOK
      <4>3. i \notin placing
        BY <3>1, CancelsForward
      <4>4. \A j \in Own : Exposed(j)' <=> Exposed(j) /\ j # i
        BY <1>1, <4>1, <4>2, <4>3 DEF Exposed, Ids, XLive
      <4> QED BY <4>4
    <3>2. CASE UNCHANGED <<exchange, link>>
      <4>1. \A j \in Own : Exposed(j)' <=> Exposed(j)
        BY <1>1, <3>2 DEF Exposed, exchange
      <4> QED BY <4>1
    <3> QED BY <1>1, <3>1, <3>2
  <2>4. Ledger!Answer(i)
    BY <1>2, <2>1, <2>2, <2>3, LedgerView, LedgerViewNext DEF Ledger!Answer
  <2> QED BY <1>5, <2>4 DEF Ledger!Next
<1> QED
  BY <1>4, <1>5

\* Every step of the OMS, the exchange and the stream is a step of the ledger or
\* does not show there.
LEMMA StepRefines ==
    ASSUME IInv, IInv', SubmittedRecorded, [Next]_vars
    PROVE  [Ledger!Next]_(Ledger!vars)
<1>0. Advances
  BY StepAdvances
<1>2. ASSUME NEW i \in Own, xstate[i] # "none"
      PROVE  savedStatus[i] # NoRecord
  <2>1. i \in Ids
    BY DEF Ids
  <2> QED BY <1>2, <2>1, OwnNoted
<1>3. CASE /\ UNCHANGED <<store, presumed, placing, exchange>>
           /\ (\A i \in Own : AnsweredFor(i)' <=> AnsweredFor(i)) \/ \A i \in Own : ~AnsweredFor(i)'
  <2>1. savedStatus' = savedStatus
    BY <1>3 DEF store
  <2>2. \A i \in Own : Entered(i) => ~PresumedOver(i)'
    BY <2>1 DEF Entered, PresumedOver, NonTerminal
  <2> QED BY <1>0, <1>3, <2>1, <2>2, LoopCloses
<1>4. CASE Engine
  <2>1. ASSUME NEW S \in (SUBSET {i \in Own : status[i] = NoRecord}) \ {{}}, NEW how \in Outcomes,
               NEW done \in SUBSET S, NEW bad \in SUBSET S, NEW half \in SUBSET done,
               NEW begun \in SUBSET half, SubmitBegin(S, how, done, bad, half, begun)
        PROVE  Ledger!Next
    BY <1>0, <2>1, SubmitPlaces
  <2>2. ASSUME NEW S \in SUBSET Ids, NEW done, NEW how, CancelBegin(S, done, how)
        PROVE  Ledger!Next
    <3> DEFINE new == [i \in Ids |-> "CANCELING"]
               active == {i \in S : status[i] \in NonTerminal}
               next == IF active = {} THEN Idle ELSE NewCall("cancel", active)
    <3>1. PICK bad : LoopEnds(active, new, done, bad, how) /\ Writes(done, bad, new, filled, how)
      BY <2>2 DEF CancelBegin
    <3>2. /\ done \subseteq active /\ Ends(how, "cancel", next)
          /\ UNCHANGED <<placing, exchange>>
      BY <2>2 DEF CancelBegin
    <3>3. ASSUME NEW i \in done \cap Own
          PROVE  savedStatus[i] # NoRecord /\ new[i] # "CANCELED"
      <4>1. i \in Ids /\ status[i] \in NonTerminal /\ new[i] = "CANCELING" /\ Accepts(i, new[i])
        BY <3>1, <3>2 DEF LoopEnds
      <4>2. CanTransition(status[i], "CANCELING")
        BY <4>1 DEF Accepts, NonTerminal, NoRecord
      <4>3. xstate[i] # "none"
        BY <4>1, <4>2, CancelingFromConfirmed DEF IInv, RecordsOK, NotesSound, Sound, Statuses
      <4> QED BY <1>2, <4>1, <4>3
    <3>4. next.served = {}
      BY IdleIsCall DEF NewCall
    <3> HIDE DEF new, active, next
    <3> QED BY <1>0, <3>1, <3>2, <3>3, <3>4, EndCloses
  <2>3. ASSUME NEW acked, NEW done \in SUBSET call.ids, NEW how, SubmitAnswered(acked, done, how)
        PROVE  Ledger!Next
    <3> DEFINE new == [i \in Ids |-> IF i \in acked THEN AckTarget(TRUE, "OPEN")
                                     ELSE AckTarget(FALSE, "UNKNOWN")]
    <3>1. PICK bad : LoopEnds(call.ids, new, done, bad, how) /\ Writes(done, bad, new, filled, how)
      BY <2>3 DEF SubmitAnswered
    <3>2. Ends(how, "submit", Idle) /\ UNCHANGED <<placing, exchange>> /\ call.op = "submit"
      BY <2>3 DEF SubmitAnswered, net
    <3>3. \A i \in done \cap Own : savedStatus[i] # NoRecord
      BY <3>2 DEF SubmittedRecorded
    <3>4. \A i \in done \cap Own : new[i] # "CANCELED"
      BY DEF AckTarget, Ids
    <3> HIDE DEF new
    <3> QED BY <1>0, <3>1, <3>2, <3>3, <3>4, IdleIsCall, EndCloses
  <2>4. ASSUME NEW answered, NEW exception, NEW done \in SUBSET call.ids, NEW how,
               CancelAnswered(answered, exception, done, how)
        PROVE  Ledger!Next
    <3> DEFINE accepted == {i \in call.ids : SymbolOf[i] \in answered}
               new == [i \in Ids |-> IF i \in accepted THEN "CANCELED" ELSE "UNKNOWN"]
               todo == IF exception THEN call.ids
                       ELSE accepted \cup {i \in call.ids : status[i] = "CANCELING"}
    <3>1. PICK bad : LoopEnds(todo, new, done, bad, how) /\ Writes(done, bad, new, filled, how)
      BY <2>4 DEF CancelAnswered
    <3>2. /\ Ends(how, "cancel", Idle) /\ UNCHANGED <<placing, exchange>> /\ call.op = "cancel"
          /\ accepted \subseteq call.served
      BY <2>4 DEF CancelAnswered, net
    <3>3. \A i \in done \cap Own : savedStatus[i] # NoRecord
      BY <1>2, <3>2 DEF IInv, CallOK, CallTracks
    <3>4. \A i \in done \cap Own : new[i] = "CANCELED" => AnsweredFor(i)
      BY <3>2 DEF AnsweredFor, Ids
    <3> HIDE DEF new, todo, accepted
    <3> QED BY <1>0, <3>1, <3>2, <3>3, <3>4, IdleIsCall, EndCloses
  <2>5. ASSUME NEW done \in SUBSET call.ids, NEW bad, NEW how, ReconcileApply(done, bad, how)
        PROVE  Ledger!Next
    <3>1. call.ids \subseteq Ids
      BY DEF IInv, CallOK, CallType
    <3> QED BY <1>0, <2>5, <3>1, ReconcilePlaces
  <2>6. ASSUME NEW r \in call.answer, NEW how, NEW done \in SUBSET {r.id}, NEW bad,
               RepairApply(r, done, bad, how)
        PROVE  Ledger!Next
    <3> DEFINE new == [i \in Ids |-> r.status]
               size == [i \in Ids |-> Higher(filled[i], r.filled)]
               todo == IF r.status = "UNKNOWN" THEN {} ELSE {r.id}
    <3>1. /\ LoopEnds(todo, new, done, bad, how) /\ Writes(done, bad, new, size, how)
          /\ Ends(how, "repair", Idle)
          /\ UNCHANGED <<placing, exchange>> /\ call.op = "got_order"
      BY <2>6 DEF RepairApply, net
    <3>2. \A i \in done \cap Own : savedStatus[i] # NoRecord
      BY <1>2 DEF IInv, CallOK, AnswerTruthful, Truthful
    <3>3. \A i \in done \cap Own : i \notin presumed'
      <4>1. r.id \notin presumed
        BY <3>1 DEF IInv, CallOK, CallTracks
      <4> QED BY <3>1, <4>1 DEF Ends
    <3> HIDE DEF new, size, todo
    <3> QED BY <1>0, <3>1, <3>2, <3>3, IdleIsCall, EndCloses
  <2>7. CASE \/ \E symbol \in Symbols : AskOpenOrders(symbol)
             \/ QueryFails \/ \E i \in Ids : AskOrder(i)
    <3>1. UNCHANGED <<store, presumed, placing, exchange>> /\ call'.op # "cancel"
      BY <2>7, IdleIsCall DEF AskOpenOrders, QueryFails, AskOrder, NewCall, net, history
    <3> QED BY <1>3, <3>1 DEF AnsweredFor
  <2>8. CASE Kill
    <3> DEFINE nobody == {}
    <3>1. /\ LoopEnds(nobody, status, nobody, nobody, "killed")
          /\ Writes(nobody, nobody, status, filled, "killed")
          /\ Ends("killed", "none", Idle)
          /\ UNCHANGED <<placing, exchange>>
      BY <2>8 DEF Kill, LoopEnds, net
    <3>2. \A i \in nobody \cap Own : FALSE
      OBVIOUS
    <3> HIDE DEF nobody
    <3> QED BY <1>0, <3>1, <3>2, IdleIsCall, EndCloses
  <2> QED BY <1>4, <2>1, <2>2, <2>3, <2>4, <2>5, <2>6, <2>7, <2>8 DEF Engine
<1>5. CASE Exchange
  <2>1. ASSUME NEW i \in Ids, NEW x, ServePlace(i, x)
        PROVE  [Ledger!Next]_(Ledger!vars)
    <3>1. /\ i \in placing /\ placing' = placing \ {i} /\ Moves(i, x, 0)
          /\ UNCHANGED <<store, history>>
          /\ call' = [call EXCEPT !.served =
                        IF call.op = "submit" /\ i \in call.ids THEN @ \cup {i} ELSE @]
      BY <2>1 DEF ServePlace
    <3>2. \A j \in Own : AnsweredFor(j)' <=> AnsweredFor(j)
      BY <3>1 DEF AnsweredFor, IInv, CallOK, CallType
    <3> QED BY <3>1, <3>2, MovesSettles DEF store, history, Exposed
  <2>2. ASSUME NEW i \in Ids, NEW x, NEW n, Moves(i, x, n), xstate[i] \in XLive \/ i \in Foreign,
               UNCHANGED <<store, call, placing, history>>
        PROVE  [Ledger!Next]_(Ledger!vars)
    <3>1. \A j \in Own : AnsweredFor(j)' <=> AnsweredFor(j)
      BY <2>2 DEF AnsweredFor
    <3>2. i \in Own => Exposed(i)
      BY <2>2, IdAssumption DEF Exposed
    <3> QED BY <2>2, <3>1, <3>2, MovesSettles DEF store, history
  <2>3. ASSUME NEW i \in Ids, ServeCancel(i)
        PROVE  [Ledger!Next]_(Ledger!vars)
    BY <2>3, CancelAnswers
  <2>4. ASSUME NEW i \in Ids, Trade(i) \/ Outsider(i)
        PROVE  [Ledger!Next]_(Ledger!vars)
    BY <2>2, <2>4 DEF Trade, Outsider, Cancels, net
  <2>5. CASE ServeQuery \/ \E i \in Ids : Repeat(i)
    <3>1. /\ UNCHANGED <<store, presumed, placing, exchange>>
          /\ call' = call \/ call'.op # "cancel"
      BY <2>5 DEF ServeQuery, Repeat, net, history, Answered
    <3> QED BY <1>3, <3>1 DEF AnsweredFor
  <2> QED BY <1>5, <2>1, <2>3, <2>4, <2>5 DEF Exchange
<1>6. CASE Stream
  <2>1. ASSUME NEW how, stream # <<>>, NEW done \in SUBSET {Head(stream).id}, NEW bad,
               StreamApply(how, done, bad)
        PROVE  Ledger!Next
    <3> DEFINE m == Head(stream)
               new == [i \in Ids |-> IF status[i] = NoRecord THEN "UNKNOWN" ELSE m.status]
               size == [i \in Ids |-> Higher(filled[i], m.filled)]
    <3>1. /\ LoopEnds({m.id}, new, done, bad, how) /\ Writes(done, bad, new, size, how)
          /\ UNCHANGED <<placing, exchange, call>>
          /\ presumed' = IF m.status = "CANCELED" THEN presumed \ {m.id} ELSE presumed
      BY <2>1 DEF StreamApply, net
    <3>2. Truthful(m)
      BY <2>1 DEF IInv, WorldOK, StreamTruthful
    <3>3. \A i \in done \cap Own : savedStatus[i] # NoRecord
      BY <3>2, <1>2 DEF Truthful
    <3>4. \A i \in Ids : new[i] = "CANCELED" => m.status = "CANCELED"
      OBVIOUS
    <3>5. ASSUME NEW i \in Own
          PROVE  savedStatus'[i] = IF i \in done THEN new[i] ELSE savedStatus[i]
      <4>1. i \in Ids
        BY DEF Ids
      <4> HIDE DEF m, new, size
      <4> QED BY <3>1, <4>1, WritesIsLoop, LoopMeans
    <3> HIDE DEF new, size
    <3>6. \A i \in Own : savedStatus[i] = NoRecord => savedStatus'[i] = NoRecord
      BY <3>3, <3>5
    <3>7. \A i \in Own : Entered(i) => ~PresumedOver(i)'
      <4> SUFFICES ASSUME NEW i \in Own, Entered(i), PresumedOver(i)' PROVE FALSE
        OBVIOUS
      <4>1. savedStatus'[i] = "CANCELED" /\ i \in presumed' /\ savedStatus[i] # "CANCELED"
        BY DEF PresumedOver, Entered, NonTerminal
      <4>2. i \in done /\ new[i] = "CANCELED" /\ i \in Ids
        BY <3>5, <4>1 DEF Ids
      <4> QED BY <3>1, <3>4, <4>1, <4>2
    <3>8. presumed' \subseteq presumed
      BY <3>1
    <3>9. \A i \in Own : AnsweredFor(i)' <=> AnsweredFor(i)
      BY <3>1 DEF AnsweredFor
    <3> HIDE DEF m
    <3> QED BY <1>0, <3>1, <3>6, <3>7, <3>8, <3>9, LoopCloses
  <2>2. CASE StreamConnect \/ StreamDrop
    BY <2>2, <1>3 DEF StreamConnect, StreamDrop, net, history, AnsweredFor
  <2> QED BY <1>6, <2>1, <2>2 DEF Stream
<1>7. CASE UNCHANGED vars
  BY <1>3, <1>7 DEF vars, net, history, AnsweredFor
<1> QED
  BY <1>4, <1>5, <1>6, <1>7 DEF Next

\* The OMS implements the exposure ledger for every set of orders and any number
\* of process deaths: orders are durable before they are let out, an entry is
\* closed for a fact of the exchange or leaves on the word of an answered cancel
\* request, and a restart does not show.
THEOREM Refinement == Spec => ImplementsLedger
<1>1. Init => Ledger!Init
  BY IdleIsCall DEF Init, Ledger!Init, Exposed, XLive, NoRecord, NonTerminal, Terminal, Ids
<1> QED
  BY <1>1, StepRefines, Inductive, SubmittedAlwaysRecorded, PTL
     DEF Spec, ImplementsLedger, Ledger!Spec

-----------------------------------------------------------------------------
(* Records on their way.                                                   *)

Transient(i) == status[i] \in {"SUBMITTING", "CANCELING"}

\* No call of this process was cut short, and it knows what the exchange holds
\* of the order's symbol.
Calm(i) == raised = {} /\ (kills = 0 \/ i \in reconciled)

\* A record on its way is the business of a submit or of a cancel, and one that
\* a cancel has to do with was moved by it.
Owned ==
    \A i \in Ids : Calm(i) /\ Transient(i) =>
        /\ i \in call.ids
        /\ call.op = "submit" \/ (call.op = "cancel" /\ status[i] = "CANCELING")

\* What a loop of this process does to the marks and to the records.
LEMMA LoopMarks ==
    ASSUME IInv, NEW todo, NEW new, NEW size, NEW done, NEW bad, NEW how \in Outcomes,
           NEW op, NEW next, NEW i \in Ids,
           LoopEnds(todo, new, done, bad, how), Writes(done, bad, new, size, how),
           Ends(how, op, next), Calm(i)'
    PROVE  /\ how # "killed"
           /\ status'[i] = IF i \in Moved(done, bad, how) THEN new[i] ELSE status[i]
           /\ how # "returned" => Calm(i) /\ op \notin {"submit", "cancel"}
           /\ how = "returned" => /\ Calm(i) \/ (op = "reconcile" /\ i \in call.ids)
                                  /\ Moved(done, bad, how) = todo /\ call' = next
<1>1. how # "killed"
  <2>1. how = "killed" => kills' # 0 /\ reconciled' = {}
    BY DEF Ends, IInv, CallOK
  <2> QED BY <2>1 DEF Calm
<1>2. status'[i] = IF i \in Moved(done, bad, how) THEN new[i] ELSE status[i]
  BY <1>1 DEF Writes, Remembers, Updated, Moved
<1>3. CASE how # "returned"
  <2>1. /\ op \in {"submit", "cancel"} => raised' # {}
        /\ raised' = {} => raised = {}
        /\ kills' = kills /\ reconciled' = reconciled
    BY <1>1, <1>3 DEF Ends
  <2> QED BY <1>1, <1>2, <1>3, <2>1 DEF Calm
<1>4. CASE how = "returned"
  <2>1. /\ raised' = raised /\ kills' = kills /\ call' = next
        /\ reconciled' = IF op = "reconcile" THEN reconciled \cup call.ids ELSE reconciled
    BY <1>4 DEF Ends
  <2>2. Moved(done, bad, how) = todo
    BY <1>4 DEF LoopEnds, Moved
  <2> QED BY <1>2, <1>4, <2>1, <2>2 DEF Calm
<1> QED
  BY <1>3, <1>4

LEMMA SubmitBeginOwned ==
    ASSUME IInv, Owned, NEW S \in SUBSET {i \in Own : status[i] = NoRecord}, NEW how \in Outcomes,
           NEW done \in SUBSET S, NEW bad, NEW half \in SUBSET done, NEW begun,
           SubmitBegin(S, how, done, bad, half, begun)
    PROVE  Owned'
<1> SUFFICES ASSUME NEW i \in Ids, Calm(i)', Transient(i)'
             PROVE  i \in call'.ids /\ call'.op = "submit"
  BY DEF Owned
<1>1. call = Idle /\ Ends(how, "submit", NewCall("submit", S))
  BY DEF SubmitBegin
<1>2. how = "returned"
  <2>1. how = "killed" => kills' # 0 /\ reconciled' = {}
    BY <1>1 DEF Ends, IInv, CallOK
  <2>2. how \notin {"returned", "killed"} => raised' # {}
    BY <1>1 DEF Ends
  <2> QED BY <2>1, <2>2 DEF Calm
<1>3. Calm(i) /\ call' = NewCall("submit", S)
  BY <1>1, <1>2 DEF Ends, Calm
<1>4. ~Transient(i)
  BY <1>1, <1>3, IdleIsCall DEF Owned
<1>5. PICK new, saved, size : Loop(S, new, saved, size, done, bad, how)
  BY SubmitIsLoop
<1>6. i \in S
  <2>1. status'[i] = IF i \in Moved(done, bad, how) THEN new[i] ELSE status[i]
    BY <1>2, <1>5, LoopMeans
  <2>2. Moved(done, bad, how) = S
    BY <1>2, <1>5 DEF Loop, LoopEnds, Moved
  <2> QED BY <1>4, <2>1, <2>2 DEF Transient
<1> QED
  BY <1>3, <1>6 DEF NewCall

LEMMA CancelBeginOwned ==
    ASSUME IInv, Owned, NEW S, NEW done, NEW how \in Outcomes, CancelBegin(S, done, how)
    PROVE  Owned'
<1> DEFINE new == [i \in Ids |-> "CANCELING"]
           active == {i \in S : status[i] \in NonTerminal}
           next == IF active = {} THEN Idle ELSE NewCall("cancel", active)
<1>1. call = Idle /\ Ends(how, "cancel", next)
  BY DEF CancelBegin
<1>2. PICK bad : LoopEnds(active, new, done, bad, how) /\ Writes(done, bad, new, filled, how)
  BY DEF CancelBegin
<1> SUFFICES ASSUME NEW i \in Ids, Calm(i)', Transient(i)'
             PROVE  i \in call'.ids /\ call'.op = "cancel" /\ status'[i] = "CANCELING"
  BY DEF Owned
<1>3. new[i] = "CANCELING"
  OBVIOUS
<1>4. active # {} => next.ids = active /\ next.op = "cancel"
  BY DEF NewCall
<1> HIDE DEF new, active, next
<1>5. /\ status'[i] = IF i \in Moved(done, bad, how) THEN new[i] ELSE status[i]
      /\ Calm(i) /\ Moved(done, bad, how) = active /\ call' = next
  BY <1>1, <1>2, LoopMarks
<1>6. ~Transient(i)
  BY <1>1, <1>5, IdleIsCall DEF Owned
<1>7. i \in active
  BY <1>5, <1>6 DEF Transient
<1> QED
  BY <1>3, <1>4, <1>5, <1>7

LEMMA SubmitAnsweredOwned ==
    ASSUME IInv, Owned, NEW acked, NEW done, NEW how \in Outcomes, SubmitAnswered(acked, done, how)
    PROVE  Owned'
<1> DEFINE new == [i \in Ids |-> IF i \in acked THEN AckTarget(TRUE, "OPEN")
                                 ELSE AckTarget(FALSE, "UNKNOWN")]
<1>1. call.op = "submit" /\ Ends(how, "submit", Idle)
  BY DEF SubmitAnswered
<1>2. PICK bad : LoopEnds(call.ids, new, done, bad, how) /\ Writes(done, bad, new, filled, how)
  BY DEF SubmitAnswered
<1>3. \A i \in Ids : new[i] \in {"OPEN", "UNKNOWN"}
  BY DEF AckTarget
<1> HIDE DEF new
<1> SUFFICES ASSUME NEW i \in Ids, Calm(i)' PROVE ~Transient(i)'
  BY DEF Owned
<1>4. /\ status'[i] = IF i \in Moved(done, bad, how) THEN new[i] ELSE status[i]
      /\ Calm(i) /\ Moved(done, bad, how) = call.ids
  BY <1>1, <1>2, LoopMarks
<1> QED
  BY <1>3, <1>4 DEF Owned, Transient

LEMMA CancelAnsweredOwned ==
    ASSUME IInv, Owned, NEW answered, NEW exception, NEW done, NEW how \in Outcomes,
           CancelAnswered(answered, exception, done, how)
    PROVE  Owned'
<1> DEFINE accepted == {i \in call.ids : SymbolOf[i] \in answered}
           new == [i \in Ids |-> IF i \in accepted THEN "CANCELED" ELSE "UNKNOWN"]
           todo == IF exception THEN call.ids
                   ELSE accepted \cup {i \in call.ids : status[i] = "CANCELING"}
<1>1. call.op = "cancel" /\ Ends(how, "cancel", Idle)
  BY DEF CancelAnswered
<1>2. PICK bad : LoopEnds(todo, new, done, bad, how) /\ Writes(done, bad, new, filled, how)
  BY DEF CancelAnswered
<1>3. /\ \A i \in Ids : new[i] \in {"CANCELED", "UNKNOWN"}
      /\ \A i \in call.ids : status[i] = "CANCELING" => i \in todo
  OBVIOUS
<1> HIDE DEF new, todo, accepted
<1> SUFFICES ASSUME NEW i \in Ids, Calm(i)' PROVE ~Transient(i)'
  BY DEF Owned
<1>4. /\ status'[i] = IF i \in Moved(done, bad, how) THEN new[i] ELSE status[i]
      /\ Calm(i) /\ Moved(done, bad, how) = todo
  BY <1>1, <1>2, LoopMarks
<1> QED
  BY <1>1, <1>3, <1>4 DEF Owned, Transient

\* Reports name no status on the way, and a reconciliation that returned leaves
\* no record of its symbol in one.
LEMMA ReconcileOwned ==
    ASSUME IInv, Owned, NEW done, NEW bad, NEW how \in Outcomes, ReconcileApply(done, bad, how)
    PROVE  Owned'
<1> DEFINE seen == {r.id : r \in call.answer}
           rep == [i \in seen |-> CHOOSE r \in call.answer : r.id = i]
           missing == Missing(seen)
           new == [i \in Ids |-> IF i \in seen /\ status[i] # NoRecord THEN rep[i].status
                                 ELSE "UNKNOWN"]
           size == [i \in Ids |-> IF i \in seen THEN Higher(filled[i], rep[i].filled)
                                  ELSE filled[i]]
<1>1. /\ call.op = "got_open"
      /\ LoopEnds(seen \cup missing, new, done, bad, how)
      /\ Writes(done, bad, new, size, how)
      /\ Ends(how, "reconcile", Idle)
  BY DEF ReconcileApply
<1>2. \A i \in Ids : new[i] \in Reported
  <2>1. \A i \in seen : rep[i] \in call.answer
    OBVIOUS
  <2>2. "UNKNOWN" \in Reported /\ \A r \in call.answer : r.status \in Reported
    BY DEF Reported, IInv, CallOK, AnswerTruthful, Truthful
  <2> QED BY <2>1, <2>2
<1>3. \A i \in call.ids : Transient(i) => i \in seen \cup missing
  BY DEF Transient, Missing, IsOpen, NonTerminal
<1> HIDE DEF seen, rep, missing, new, size
<1> SUFFICES ASSUME NEW i \in Ids, Calm(i)' PROVE ~Transient(i)'
  BY DEF Owned
<1>4. /\ status'[i] = IF i \in Moved(done, bad, how) THEN new[i] ELSE status[i]
      /\ how # "returned" => Calm(i)
      /\ how = "returned" => /\ Calm(i) \/ i \in call.ids
                             /\ Moved(done, bad, how) = seen \cup missing
  BY <1>1, LoopMarks
<1>5. Calm(i) => ~Transient(i)
  BY <1>1 DEF Owned
<1> QED
  BY <1>2, <1>3, <1>4, <1>5 DEF Transient, Reported

LEMMA RepairOwned ==
    ASSUME IInv, Owned, NEW r \in call.answer, NEW done, NEW bad, NEW how \in Outcomes,
           RepairApply(r, done, bad, how)
    PROVE  Owned'
<1> DEFINE new == [i \in Ids |-> r.status]
           size == [i \in Ids |-> Higher(filled[i], r.filled)]
           todo == IF r.status = "UNKNOWN" THEN {} ELSE {r.id}
<1>1. /\ call.op = "got_order"
      /\ LoopEnds(todo, new, done, bad, how) /\ Writes(done, bad, new, size, how)
      /\ Ends(how, "repair", Idle)
  BY DEF RepairApply
<1>2. \A i \in Ids : new[i] \in Reported
  BY DEF IInv, CallOK, AnswerTruthful, Truthful
<1> HIDE DEF new, size, todo
<1> SUFFICES ASSUME NEW i \in Ids, Calm(i)' PROVE ~Transient(i)'
  BY DEF Owned
<1>3. /\ status'[i] = IF i \in Moved(done, bad, how) THEN new[i] ELSE status[i]
      /\ Calm(i)
  BY <1>1, LoopMarks
<1> QED
  BY <1>1, <1>2, <1>3 DEF Owned, Transient, Reported

LEMMA StepOwned ==
    ASSUME IInv, Owned, [Next]_vars
    PROVE  Owned'
<1>1. call.op \in Ops /\ call \in CallType
  BY DEF IInv, CallOK, CallType
<1>2. ASSUME UNCHANGED <<memory, history>>,
             /\ call'.op = call.op \/ call.op \notin {"submit", "cancel"}
             /\ call.ids \subseteq call'.ids \/ call.op \notin {"submit", "cancel"}
      PROVE  Owned'
  <2>1. status' = status /\ \A i \in Ids : Calm(i)' <=> Calm(i)
    BY <1>2 DEF memory, history, Calm
  <2> QED BY <1>2, <2>1 DEF Owned, Transient
<1>3. CASE Engine
  <2>1. CASE \/ \E symbol \in Symbols : AskOpenOrders(symbol)
             \/ QueryFails \/ \E i \in Ids : AskOrder(i)
    <3>1. UNCHANGED <<memory, history>> /\ call.op \notin {"submit", "cancel"}
      BY <2>1, IdleIsCall DEF AskOpenOrders, QueryFails, AskOrder
    <3> QED BY <1>2, <3>1
  <2>2. CASE Kill
    <3>1. kills' # 0 /\ reconciled' = {}
      BY <2>2 DEF Kill, Ends, IInv, CallOK
    <3> QED BY <3>1 DEF Owned, Calm
  <2>3. CASE \E S \in (SUBSET {i \in Own : status[i] = NoRecord}) \ {{}}, how \in Outcomes :
                \E done, bad \in SUBSET S :
                   \E half \in SUBSET done : \E begun \in SUBSET half :
                      SubmitBegin(S, how, done, bad, half, begun)
    BY <2>3, SubmitBeginOwned
  <2>4. CASE \E S \in (SUBSET Ids) \ {{}}, how \in Outcomes :
                \E done \in SUBSET S : CancelBegin(S, done, how)
    BY <2>4, CancelBeginOwned
  <2>5. CASE \E acked, done \in SUBSET call.ids, how \in Outcomes : SubmitAnswered(acked, done, how)
    BY <2>5, SubmitAnsweredOwned
  <2>6. CASE \E answered \in SUBSET Symbols, done \in SUBSET call.ids,
                exception \in BOOLEAN, how \in Outcomes :
                CancelAnswered(answered, exception, done, how)
    BY <2>6, CancelAnsweredOwned
  <2>7. CASE \E done, bad \in SUBSET call.ids, how \in Outcomes : ReconcileApply(done, bad, how)
    BY <2>7, ReconcileOwned
  <2>8. CASE \E r \in call.answer, how \in Outcomes :
                \E done, bad \in SUBSET {r.id} : RepairApply(r, done, bad, how)
    BY <2>8, RepairOwned
  <2> QED BY <1>3, <2>1, <2>2, <2>3, <2>4, <2>5, <2>6, <2>7, <2>8 DEF Engine
<1>4. CASE Exchange
  <2>1. ASSUME NEW i, NEW x, ServePlace(i, x)
        PROVE  Owned'
    <3>1. UNCHANGED <<memory, history>> /\ call'.op = call.op /\ call'.ids = call.ids
      BY <1>1, <2>1 DEF ServePlace, CallType
    <3> QED BY <1>2, <3>1
  <2>2. ASSUME NEW i, ServeCancel(i)
        PROVE  Owned'
    <3>1. UNCHANGED <<memory, history>> /\ call'.op = call.op /\ call'.ids = call.ids
      BY <1>1, <2>2 DEF ServeCancel, CallType
    <3> QED BY <1>2, <3>1
  <2>3. CASE \E i \in Ids : Trade(i) \/ Outsider(i) \/ Repeat(i)
    BY <1>2, <2>3 DEF Trade, Outsider, Repeat
  <2>4. CASE ServeQuery
    <3>1. UNCHANGED <<memory, history>> /\ call.op \notin {"submit", "cancel"}
      BY <2>4 DEF ServeQuery
    <3> QED BY <1>2, <3>1
  <2> QED BY <1>4, <2>1, <2>2, <2>3, <2>4 DEF Exchange
<1>5. CASE Stream
  <2>1. ASSUME stream # <<>>, NEW how, NEW done, NEW bad, StreamApply(how, done, bad)
        PROVE  Owned'
    <3> DEFINE m == Head(stream)
               new == [i \in Ids |-> IF status[i] = NoRecord THEN "UNKNOWN" ELSE m.status]
               size == [i \in Ids |-> Higher(filled[i], m.filled)]
    <3>1. /\ how # "killed"
          /\ LoopEnds({m.id}, new, done, bad, how)
          /\ Writes(done, bad, new, size, how)
          /\ UNCHANGED <<call, raised, reconciled, kills>>
      BY <2>1 DEF StreamApply
    <3>2. m.status \in Reported
      <4>1. stream \in Seq(Report) /\ StreamTruthful
        BY DEF IInv, WorldOK
      <4>2. 1 \in 1 .. Len(stream) /\ m = stream[1]
        BY <2>1, <4>1
      <4> QED BY <4>1, <4>2 DEF StreamTruthful, Truthful
    <3>3. \A i \in Ids : new[i] \in Reported
      BY <3>2 DEF Reported
    <3> HIDE DEF new, size, m
    <3>4. \A i \in Ids : status'[i] = IF i \in Moved(done, bad, how) THEN new[i] ELSE status[i]
      BY <3>1 DEF Writes, Remembers, Updated, Moved
    <3>5. \A i \in Ids : Calm(i)' <=> Calm(i)
      BY <3>1 DEF Calm
    <3>6. \A i \in Ids : Transient(i)' => status'[i] = status[i]
      BY <3>3, <3>4 DEF Transient, Reported
    <3> QED BY <3>1, <3>5, <3>6 DEF Owned, Transient
  <2>2. CASE StreamConnect \/ StreamDrop
    BY <1>2, <2>2 DEF StreamConnect, StreamDrop
  <2> QED BY <1>5, <2>1, <2>2 DEF Stream
<1>6. CASE UNCHANGED vars
  BY <1>2, <1>6 DEF vars
<1> QED
  BY <1>3, <1>4, <1>5, <1>6 DEF Next

\* A record that is SUBMITTING or CANCELING belongs to the call in flight, in a
\* process no submit or cancel of which was cut short and that has reconciled
\* the order's symbol since its restart (oms/manager.py:92-199, 223-250): for
\* every set of orders, however reports, answers, failing saves and deaths
\* interleave.
THEOREM TransientAlwaysHasOwner == Spec => []TransientHasOwner
<1>1. Init => Owned
  BY DEF Init, Owned, Transient, NoRecord
<1>2. IInv /\ Owned => TransientHasOwner
  BY DEF Owned, TransientHasOwner, Calm, Transient, IInv, CallOK
<1> QED
  BY <1>1, <1>2, StepOwned, Inductive, PTL DEF Spec


=============================================================================
