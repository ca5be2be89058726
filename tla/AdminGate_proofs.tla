-------------------------- MODULE AdminGate_proofs ---------------------------
(***************************************************************************)
(* Proofs about AdminGate, for any number of concurrent handlers and any   *)
(* number of status updates on their way.                                  *)
(*                                                                         *)
(* The argument: the last status update on its way is the bot's present    *)
(* status (StreamLast), so a writer of the flag that has been alone since  *)
(* it began and finds nothing on its way any more holds the present status *)
(* itself (AloneKnows), and writes nothing else (PutsWhatItKnows).         *)
(***************************************************************************)
EXTENDS AdminGate, SequenceTheorems, TLAPS

\* The newest update on its way is what Telegram would say now.
StreamLast == stream # << >> => stream[Len(stream)] = bot

\* What a handler puts is the flag of the status it was told.
PutIsTold(x) ==
  /\ x.at \in {"status", "clearing"} => x.kind = "status" /\ x.put = "none"
  /\ x.at \in {"command", "ask", "answered"} => x.kind = "command" /\ x.put = "none"
  /\ x.at = "passed" => x.kind = "command"
  /\ x.at = "clearing" => x.now = "away"
  /\ x.put # "none" =>
       x.put = AsFlag(IF x.kind = "status" THEN x.now = "admin" ELSE x.answer)
  /\ x.kind = "status" /\ x.at = "done" => x.put # "none"

PutsWhatItKnows == \A t \in Task : tx[t] # Idle => PutIsTold(tx[t])

Alone(x) == IsWriter(x) /\ x.alone = TRUE

\* Beside a writer that is still alone there is no other.
AloneIsAlone == \A t \in Task : Alone(tx[t]) => Others(t) = {}

\* What handler x was told is the present status, unless a newer update is on its way.
Knows(x) ==
  stream = << >> =>
    /\ x.kind = "status" => x.now = bot
    /\ x.kind = "command" /\ x.at # "ask" => x.answer = (bot = "admin")

AloneKnows == \A t \in Task : Alone(tx[t]) => Knows(tx[t])

IInv == TypeOK /\ StreamLast /\ PutsWhatItKnows /\ AloneIsAlone /\ AloneKnows /\ FlagExact

-----------------------------------------------------------------------------
(* Type correctness.                                                       *)

\* A handler has a place other than "idle" to be at.
LEMMA IdleIsNoHandler == \A x \in Handler : x # Idle /\ x.at # Idle.at
  BY DEF Handler, Idle

\* Becoming a writer keeps the handlers well typed.
LEMMA StartWritingType ==
  ASSUME TypeOK, NEW t \in Task, NEW x \in Handler, StartWriting(t, x)
  PROVE  tx' \in [Task -> {Idle} \cup Handler]
<1>1. \A y \in Handler, b \in BOOLEAN : [y EXCEPT !.alone = b] \in Handler
  BY DEF Handler
<1>2. (Others(t) = {}) \in BOOLEAN
  OBVIOUS
<1>3. \A o \in Others(t) : tx[o] \in Handler
  BY DEF TypeOK, Others, IsWriter
<1> QED
  BY <1>1, <1>2, <1>3 DEF StartWriting, TypeOK

\* Every step keeps the variables well typed.
LEMMA TypeStep == TypeOK /\ [Next]_vars => TypeOK'
<1> SUFFICES ASSUME TypeOK, [Next]_vars PROVE TypeOK'
  OBVIOUS
<1>1. CASE UNCHANGED vars
  BY <1>1 DEF vars, TypeOK
<1>2. ASSUME NEW s \in Status, SetStatus(s) PROVE TypeOK'
  BY <1>2 DEF TypeOK, SetStatus
<1>3. ASSUME NEW t \in Task, ReceiveStatus(t) PROVE TypeOK'
  <2>1. Head(stream) \in Status /\ Tail(stream) \in Seq(Status)
    BY <1>3, HeadTailProperties DEF TypeOK, ReceiveStatus
  <2>2. [at |-> "status", kind |-> "status", now |-> Head(stream),
         answer |-> FALSE, put |-> "none", alone |-> TRUE] \in Handler
    BY <2>1 DEF Handler, Status
  <2> QED
    BY <1>3, <2>1, <2>2, StartWritingType DEF TypeOK, ReceiveStatus
<1>4. ASSUME NEW t \in Task, ReceiveCommand(t) PROVE TypeOK'
  <2>1. [at |-> "command", kind |-> "command", now |-> "away",
         answer |-> FALSE, put |-> "none", alone |-> TRUE] \in Handler
    BY DEF Handler, Status
  <2> QED
    BY <1>4, <2>1 DEF TypeOK, ReceiveCommand
<1>5. ASSUME NEW t \in Task, Raise(t) PROVE TypeOK'
  BY <1>5 DEF TypeOK, Raise, End
<1>6. ASSUME NEW t \in Task, Step(t) PROVE TypeOK'
  <2>1. tx[t] \in Handler
    BY <1>6, IdleIsNoHandler
    DEF TypeOK, Step, NoteRemoved, RecordStatus, ClearFlag, CheckFlag, AskTelegram, StoreAnswer,
        Serve, Commit, Idle
  <2>2. CASE NoteRemoved(t)
    <3>1. [tx[t] EXCEPT !.at = "clearing"] \in Handler /\ tx[t].alone \in BOOLEAN
      BY <2>1 DEF Handler
    <3> QED
      BY <2>2, <3>1 DEF TypeOK, NoteRemoved, End
  <2>3. CASE RecordStatus(t)
    <3>1. [tx[t] EXCEPT !.at = "done", !.put = AsFlag(tx[t].now = "admin")] \in Handler
      BY <2>1 DEF Handler, AsFlag
    <3> QED
      BY <2>3, <3>1 DEF TypeOK, RecordStatus
  <2>4. CASE ClearFlag(t)
    <3>1. [tx[t] EXCEPT !.at = "done", !.put = "no"] \in Handler
      BY <2>1 DEF Handler
    <3> QED
      BY <2>4, <3>1 DEF TypeOK, ClearFlag
  <2>5. CASE CheckFlag(t)
    <3>1. [tx[t] EXCEPT !.at = "passed"] \in Handler /\ [tx[t] EXCEPT !.at = "ask"] \in Handler
      BY <2>1 DEF Handler
    <3> QED
      BY <2>5, <3>1, StartWritingType DEF TypeOK, CheckFlag
  <2>6. CASE AskTelegram(t)
    <3>1. [tx[t] EXCEPT !.at = "answered", !.answer = (bot = "admin")] \in Handler
      BY <2>1 DEF Handler
    <3> QED
      BY <2>6, <3>1 DEF TypeOK, AskTelegram
  <2>7. CASE StoreAnswer(t)
    <3>1. [tx[t] EXCEPT !.put = AsFlag(tx[t].answer),
                        !.at = IF tx[t].answer THEN "passed" ELSE "done"] \in Handler
      BY <2>1 DEF Handler, AsFlag
    <3> QED
      BY <2>7, <3>1 DEF TypeOK, StoreAnswer
  <2>8. CASE Serve(t)
    <3>1. [tx[t] EXCEPT !.at = "done"] \in Handler
      BY <2>1 DEF Handler
    <3> QED
      BY <2>8, <3>1 DEF TypeOK, Serve
  <2>9. CASE Commit(t)
    <3>1. tx[t].put \in {"none", "no", "yes"} /\ tx[t].alone \in BOOLEAN
      BY <2>1 DEF Handler
    <3> QED
      BY <2>9, <3>1 DEF TypeOK, Commit, End, Flag
  <2> QED
    BY <1>6, <2>2, <2>3, <2>4, <2>5, <2>6, <2>7, <2>8, <2>9 DEF Step
<1> QED
  BY <1>1, <1>2, <1>3, <1>4, <1>5, <1>6 DEF Next

\* Type correctness, for every number of handlers.
THEOREM TypeCorrect == Spec => []TypeOK
<1>1. Init => TypeOK
  BY DEF Init, TypeOK, Flag, Status
<1> QED
  BY <1>1, TypeStep, PTL DEF Spec

-----------------------------------------------------------------------------
(* The inductive invariant.                                                *)

\* What is left of the updates on their way ends as it did.
LEMMA TailLast ==
  ASSUME NEW S, NEW q \in Seq(S), q # << >>
  PROVE  /\ Tail(q) # << >> => Tail(q)[Len(Tail(q))] = q[Len(q)]
         /\ Tail(q) = << >> => Head(q) = q[Len(q)]
<1>1. Len(q) \in Nat \ {0} /\ Head(q) = q[1] /\ Tail(q) \in Seq(S)
  OBVIOUS
<1>2. CASE Len(q) = 1
  <2> DEFINE n == Len(Tail(q))
  <2>1. n = Len(q) - 1
    BY HeadTailProperties, Zenon
  <2>2. Tail(q) # << >> => n \in Nat \ {0}
    BY <1>1, EmptySeq, Zenon
  <2> HIDE DEF n
  <2>3. Tail(q) = << >>
    BY <1>2, <2>1, <2>2
  <2> QED
    BY <1>1, <1>2, <2>3
<1>3. CASE Len(q) # 1
  <2>1. Len(Tail(q)) \in Nat \ {0}
    BY <1>1, <1>3
  <2>2. Tail(q) # << >>
    BY <2>1, EmptySeq
  <2> QED
    BY <1>1, <2>2
<1> QED
  BY <1>2, <1>3

\* Handler t goes on to x, which is a writer only if it was one before.
LEMMA MoveKeeps ==
  ASSUME IInv, NEW t \in Task, NEW x \in Handler, tx' = [tx EXCEPT ![t] = x],
         UNCHANGED <<bot, stream, flag, calm>>,
         PutIsTold(x),
         IsWriter(x) => IsWriter(tx[t]) /\ x.alone = tx[t].alone,
         Alone(x) => Knows(x),
         tx[t] = Idle \/ x.kind = tx[t].kind
  PROVE  StreamLast' /\ PutsWhatItKnows' /\ AloneIsAlone' /\ AloneKnows' /\ FlagExact'
<1>1. /\ tx'[t] = x /\ tx' \in [Task -> {Idle} \cup Handler]
      /\ \A o \in Task \ {t} : tx'[o] = tx[o]
  BY DEF IInv, TypeOK
<1>2. PutsWhatItKnows'
  BY <1>1 DEF IInv, PutsWhatItKnows
<1>3. \A o \in Task : /\ IsWriter(tx'[o]) => IsWriter(tx[o])
                      /\ Alone(tx'[o]) => Alone(tx[o])
  BY <1>1 DEF Alone
<1>4. AloneIsAlone'
  BY <1>3 DEF IInv, AloneIsAlone, Others
<1>5. \A y : Knows(y)' <=> Knows(y)
  BY DEF Knows
<1>6. AloneKnows'
  BY <1>1, <1>5 DEF IInv, AloneKnows
<1>7. FlagExact'
  <2>1. x # Idle
    BY IdleIsNoHandler
  <2> QED
    BY <1>1, <2>1 DEF IInv, FlagExact
<1> QED
  BY <1>2, <1>4, <1>6, <1>7 DEF IInv, StreamLast

\* A handler that ends leaves the others as they were.
LEMMA EndKeeps ==
  ASSUME IInv, NEW t \in Task, End(t)
  PROVE  StreamLast' /\ PutsWhatItKnows' /\ AloneIsAlone' /\ AloneKnows'
<1>1. tx'[t] = Idle /\ \A o \in Task \ {t} : tx'[o] = tx[o]
  BY DEF IInv, TypeOK, End
<1>2. UNCHANGED <<bot, stream>>
  BY DEF End
<1>3. ~IsWriter(Idle)
  BY DEF IsWriter
<1>4. AloneIsAlone'
  BY <1>1, <1>3 DEF IInv, AloneIsAlone, Others, Alone
<1>5. AloneKnows'
  BY <1>1, <1>2, <1>3 DEF IInv, AloneKnows, Alone, Knows
<1> QED
  BY <1>1, <1>2, <1>4, <1>5 DEF IInv, PutsWhatItKnows, StreamLast

\* Handlers y and z differ in their solitude at most.
Same(y, z) == /\ z.at = y.at /\ z.kind = y.kind /\ z.now = y.now
              /\ z.answer = y.answer /\ z.put = y.put

\* A handler that begins to write ends the solitude of the others.
LEMMA StartWritingKeeps ==
  ASSUME IInv, NEW t \in Task, NEW x \in Handler, StartWriting(t, x),
         IsWriter(x), ~IsWriter(tx[t]), PutIsTold(x), Knows(x)'
  PROVE  /\ PutsWhatItKnows' /\ AloneIsAlone' /\ AloneKnows'
         /\ tx'[t] # Idle /\ tx'[t].kind = x.kind
         /\ \A o \in Task \ {t} : tx[o] # Idle => tx'[o] # Idle /\ tx'[o].kind = tx[o].kind
<1>1. \A y, z \in Handler : Same(y, z) =>
        /\ z # Idle /\ y # Idle
        /\ IsWriter(z) <=> IsWriter(y)
        /\ PutIsTold(z) <=> PutIsTold(y)
        /\ Knows(z)' <=> Knows(y)'
  BY IdleIsNoHandler DEF Same, IsWriter, PutIsTold, Knows
<1>2. \A y \in Handler, b \in BOOLEAN :
        [y EXCEPT !.alone = b] \in Handler /\ Same(y, [y EXCEPT !.alone = b])
  BY DEF Same, Handler
<1>3. /\ tx'[t] \in Handler /\ Same(x, tx'[t])
      /\ tx'[t].alone = (Others(t) = {})
  BY <1>2 DEF StartWriting, Handler
<1>4. ASSUME NEW o \in Others(t)
      PROVE  /\ tx[o] \in Handler /\ tx'[o] \in Handler /\ Same(tx[o], tx'[o])
             /\ tx'[o].alone = FALSE
             /\ IsWriter(tx[o]) /\ IsWriter(tx'[o])
  <2>1. tx[o] \in Handler /\ IsWriter(tx[o])
    BY DEF Others, IInv, TypeOK, IsWriter
  <2>2. tx'[o] = [tx[o] EXCEPT !.alone = FALSE]
    BY DEF StartWriting, Others
  <2>3. tx'[o].alone = FALSE
    BY <2>1, <2>2 DEF Handler
  <2>4. tx'[o] \in Handler /\ Same(tx[o], tx'[o])
    BY <1>2, <2>1, <2>2
  <2> QED
    BY <1>1, <2>1, <2>3, <2>4
<1>5. ASSUME NEW o \in Task \ {t}, o \notin Others(t)
      PROVE  tx'[o] = tx[o] /\ ~IsWriter(tx[o])
  BY <1>5 DEF StartWriting, Others
<1>6. \A o \in Task \ {t} : (IsWriter(tx'[o]) <=> IsWriter(tx[o])) /\ ~Alone(tx'[o])
  <2> SUFFICES ASSUME NEW o \in Task \ {t}
               PROVE  (IsWriter(tx'[o]) <=> IsWriter(tx[o])) /\ ~Alone(tx'[o])
    OBVIOUS
  <2>1. CASE o \in Others(t)
    BY <1>4, <2>1 DEF Alone
  <2>2. CASE o \notin Others(t)
    BY <1>5, <2>2 DEF Alone
  <2> QED
    BY <2>1, <2>2
<1>7. AloneIsAlone'
  <2>1. Others(t)' = Others(t)
    BY <1>6 DEF Others
  <2>2. Alone(tx'[t]) => Others(t) = {}
    BY <1>3 DEF Alone
  <2> QED
    BY <1>6, <2>1, <2>2 DEF AloneIsAlone
<1>8. PutsWhatItKnows'
  <2>1. PutIsTold(tx'[t])
    BY <1>1, <1>3
  <2>2. ASSUME NEW o \in Task \ {t}, tx'[o] # Idle PROVE PutIsTold(tx'[o])
    <3>1. CASE o \in Others(t)
      BY <1>1, <1>4, <3>1 DEF IInv, PutsWhatItKnows
    <3>2. CASE o \notin Others(t)
      BY <1>5, <2>2, <3>2 DEF IInv, PutsWhatItKnows
    <3> QED
      BY <3>1, <3>2
  <2> QED
    BY <2>1, <2>2 DEF PutsWhatItKnows
<1>9. AloneKnows'
  <2>1. Knows(tx[t])'
    BY <1>1, <1>3 DEF Knows, Same
  <2> QED
    BY <1>6, <2>1 DEF AloneKnows
<1>10. tx'[t] # Idle /\ tx'[t].kind = x.kind
  BY <1>1, <1>3 DEF Same
<1>11. ASSUME NEW o \in Task \ {t}, tx[o] # Idle PROVE tx'[o] # Idle /\ tx'[o].kind = tx[o].kind
  <2>1. CASE o \in Others(t)
    BY <1>1, <1>4, <2>1 DEF Same
  <2>2. CASE o \notin Others(t)
    BY <1>5, <1>11, <2>2
  <2> QED
    BY <2>1, <2>2
<1> QED
  BY <1>7, <1>8, <1>9, <1>10, <1>11

\* Every step preserves the invariant.
LEMMA InvStep == IInv /\ [Next]_vars => IInv'
<1> SUFFICES ASSUME IInv, [Next]_vars PROVE IInv'
  OBVIOUS
<1>1. TypeOK'
  BY TypeStep DEF IInv
<1> DEFINE Rest == StreamLast /\ PutsWhatItKnows /\ AloneIsAlone /\ AloneKnows /\ FlagExact
<1>2. CASE UNCHANGED vars
  BY <1>1, <1>2 DEF vars, IInv, StreamLast, PutsWhatItKnows, AloneIsAlone, Others, AloneKnows,
                    Knows, FlagExact
<1>3. ASSUME NEW s \in Status, SetStatus(s) PROVE Rest'
  <2>1. stream' # << >> /\ stream'[Len(stream')] = bot' /\ UNCHANGED <<flag, tx, calm>>
    BY <1>3 DEF SetStatus, IInv, TypeOK
  <2> QED
    BY <2>1 DEF IInv, StreamLast, PutsWhatItKnows, AloneIsAlone, Others, AloneKnows, Knows, FlagExact
<1>4. ASSUME NEW t \in Task, ReceiveStatus(t) PROVE Rest'
  <2>1. /\ stream \in Seq(Status) /\ stream # << >> /\ stream' = Tail(stream) /\ bot' = bot
        /\ tx[t] = Idle /\ Head(stream) \in Status
    BY <1>4 DEF ReceiveStatus, IInv, TypeOK
  <2>2. PICK x \in Handler :
          /\ x = [at |-> "status", kind |-> "status", now |-> Head(stream),
                  answer |-> FALSE, put |-> "none", alone |-> TRUE]
          /\ StartWriting(t, x)
    BY <1>4, <2>1 DEF ReceiveStatus, Handler
  <2>3. StreamLast'
    BY <2>1, TailLast DEF IInv, StreamLast
  <2>4. x.kind = "status" /\ IsWriter(x) /\ ~IsWriter(tx[t]) /\ PutIsTold(x)
    BY <2>1, <2>2 DEF IsWriter, PutIsTold, Idle
  <2>5. Knows(x)'
    BY <2>1, <2>2, TailLast DEF Knows, IInv, StreamLast
  <2>6. /\ PutsWhatItKnows' /\ AloneIsAlone' /\ AloneKnows'
        /\ tx'[t] # Idle /\ tx'[t].kind = "status"
    BY <2>2, <2>4, <2>5, StartWritingKeeps
  <2>7. FlagExact'
    BY <2>6 DEF FlagExact
  <2> QED
    BY <2>3, <2>6, <2>7
<1>5. ASSUME NEW t \in Task, ReceiveCommand(t) PROVE Rest'
  <2> DEFINE x == [at |-> "command", kind |-> "command", now |-> "away",
                   answer |-> FALSE, put |-> "none", alone |-> TRUE]
  <2>1. tx[t] = Idle /\ tx' = [tx EXCEPT ![t] = x] /\ UNCHANGED <<bot, stream, flag, calm>>
    BY <1>5 DEF ReceiveCommand
  <2>2. x \in Handler /\ ~IsWriter(x) /\ ~Alone(x) /\ PutIsTold(x)
    BY DEF Handler, IsWriter, Alone, PutIsTold, Status
  <2> HIDE DEF x
  <2> QED
    BY <2>1, <2>2, MoveKeeps
<1>6. ASSUME NEW t \in Task, Raise(t) PROVE Rest'
  <2>1. StreamLast' /\ PutsWhatItKnows' /\ AloneIsAlone' /\ AloneKnows'
    BY <1>6, EndKeeps DEF Raise
  <2>2. FlagExact'
    <3>1. /\ tx[t] # Idle /\ calm' = (calm /\ tx[t].kind = "command")
          /\ tx'[t] = Idle /\ \A o \in Task \ {t} : tx'[o] = tx[o]
          /\ UNCHANGED <<bot, stream, flag>>
      BY <1>6 DEF Raise, End, IInv, TypeOK
    <3> QED
      BY <3>1 DEF IInv, FlagExact
  <2> QED
    BY <2>1, <2>2
<1>7. ASSUME NEW t \in Task, Step(t) PROVE Rest'
  <2>1. tx[t] \in Handler /\ tx[t] # Idle /\ PutIsTold(tx[t])
    BY <1>7, IdleIsNoHandler
    DEF IInv, TypeOK, PutsWhatItKnows, Step, NoteRemoved, RecordStatus, ClearFlag, CheckFlag,
        AskTelegram, StoreAnswer, Serve, Commit, Idle
  <2>2. Alone(tx[t]) => Knows(tx[t])
    BY DEF IInv, AloneKnows
  <2> DEFINE Go(x) == tx' = [tx EXCEPT ![t] = x] /\ UNCHANGED <<bot, stream, flag, calm>>
  <2>3. ASSUME NEW x \in Handler, Go(x), PutIsTold(x), x.kind = tx[t].kind,
               x.alone = tx[t].alone, IsWriter(x) => IsWriter(tx[t]) /\ (Knows(tx[t]) => Knows(x))
        PROVE  Rest'
    BY <2>2, <2>3, MoveKeeps DEF Alone
  <2>4. CASE NoteRemoved(t)
    <3>1. CASE flag # "norow"
      <4> DEFINE x == [tx[t] EXCEPT !.at = "clearing"]
      <4>1. Go(x)
        BY <2>4, <3>1 DEF NoteRemoved
      <4>2. /\ x \in Handler /\ PutIsTold(x) /\ x.kind = tx[t].kind /\ x.alone = tx[t].alone
            /\ IsWriter(x) => IsWriter(tx[t]) /\ (Knows(tx[t]) => Knows(x))
        BY <2>1, <2>4 DEF NoteRemoved, Handler, PutIsTold, IsWriter, Knows, Idle
      <4> HIDE DEF x
      <4> QED
        BY <4>1, <4>2, <2>3
    <3>2. CASE flag = "norow"
      <4>1. /\ End(t) /\ calm' = tx[t].alone /\ flag' = "norow" /\ UNCHANGED <<bot, stream>>
            /\ tx[t].at = "status" /\ tx[t].now = "away"
        BY <2>4, <3>2 DEF NoteRemoved, End
      <4>2. tx[t].kind = "status" /\ IsWriter(tx[t])
        BY <2>1, <4>1 DEF PutIsTold, IsWriter
      <4>3. calm' /\ stream = << >> => bot = "away"
        BY <2>1, <2>2, <4>1, <4>2 DEF Alone, Knows, Handler
      <4>4. FlagExact'
        BY <4>1, <4>3 DEF FlagExact
      <4> QED
        BY <4>1, <4>4, EndKeeps
    <3> QED
      BY <3>1, <3>2
  <2>5. CASE RecordStatus(t)
    <3> DEFINE x == [tx[t] EXCEPT !.at = "done", !.put = AsFlag(tx[t].now = "admin")]
    <3>1. Go(x)
      BY <2>5 DEF RecordStatus
    <3>2. /\ x \in Handler /\ PutIsTold(x) /\ x.kind = tx[t].kind /\ x.alone = tx[t].alone
          /\ IsWriter(x) => IsWriter(tx[t]) /\ (Knows(tx[t]) => Knows(x))
      BY <2>1, <2>5 DEF RecordStatus, Handler, PutIsTold, IsWriter, Knows, Idle, AsFlag
    <3> HIDE DEF x
    <3> QED
      BY <3>1, <3>2, <2>3
  <2>6. CASE ClearFlag(t)
    <3> DEFINE x == [tx[t] EXCEPT !.at = "done", !.put = "no"]
    <3>1. Go(x)
      BY <2>6 DEF ClearFlag
    <3>2. /\ x \in Handler /\ PutIsTold(x) /\ x.kind = tx[t].kind /\ x.alone = tx[t].alone
          /\ IsWriter(x) => IsWriter(tx[t]) /\ (Knows(tx[t]) => Knows(x))
      BY <2>1, <2>6 DEF ClearFlag, Handler, PutIsTold, IsWriter, Knows, Idle, AsFlag
    <3> HIDE DEF x
    <3> QED
      BY <3>1, <3>2, <2>3
  <2>7. CASE CheckFlag(t)
    <3>1. CASE flag # "no"
      <4> DEFINE x == [tx[t] EXCEPT !.at = "passed"]
      <4>1. Go(x)
        BY <2>7, <3>1 DEF CheckFlag
      <4>2. /\ x \in Handler /\ PutIsTold(x) /\ x.kind = tx[t].kind /\ x.alone = tx[t].alone
            /\ IsWriter(x) => IsWriter(tx[t]) /\ (Knows(tx[t]) => Knows(x))
        BY <2>1, <2>7 DEF CheckFlag, Handler, PutIsTold, IsWriter, Knows, Idle
      <4> HIDE DEF x
      <4> QED
        BY <4>1, <4>2, <2>3
    <3>2. CASE flag = "no"
      <4>1. PICK x \in Handler : x = [tx[t] EXCEPT !.at = "ask"] /\ StartWriting(t, x)
        BY <2>1, <2>7, <3>2 DEF CheckFlag, Handler
      <4>2. UNCHANGED <<bot, stream, flag, calm>>
        BY <2>7 DEF CheckFlag
      <4>3. /\ PutIsTold(x) /\ IsWriter(x) /\ ~IsWriter(tx[t])
            /\ x.kind = "command" /\ x.at = "ask" /\ tx[t].kind = "command"
        BY <2>1, <2>7, <4>1 DEF CheckFlag, Handler, PutIsTold, IsWriter, Idle
      <4>4. Knows(x)'
        BY <4>3 DEF Knows
      <4>5. /\ PutsWhatItKnows' /\ AloneIsAlone' /\ AloneKnows'
            /\ \A o \in Task : tx[o] # Idle => tx'[o] # Idle /\ tx'[o].kind = tx[o].kind
        BY <4>1, <4>3, <4>4, StartWritingKeeps
      <4>6. FlagExact'
        BY <4>2, <4>5 DEF IInv, FlagExact
      <4> QED
        BY <4>2, <4>5, <4>6 DEF IInv, StreamLast
    <3> QED
      BY <3>1, <3>2
  <2>8. CASE AskTelegram(t)
    <3> DEFINE x == [tx[t] EXCEPT !.at = "answered", !.answer = (bot = "admin")]
    <3>1. Go(x)
      BY <2>8 DEF AskTelegram
    <3>2. /\ x \in Handler /\ PutIsTold(x) /\ x.kind = tx[t].kind /\ x.alone = tx[t].alone
          /\ IsWriter(x) => IsWriter(tx[t]) /\ (Knows(tx[t]) => Knows(x))
      BY <2>1, <2>8 DEF AskTelegram, Handler, PutIsTold, IsWriter, Knows, Idle, AsFlag
    <3> HIDE DEF x
    <3> QED
      BY <3>1, <3>2, <2>3
  <2>9. CASE StoreAnswer(t)
    <3> DEFINE x == [tx[t] EXCEPT !.put = AsFlag(tx[t].answer),
                                  !.at = IF tx[t].answer THEN "passed" ELSE "done"]
    <3>1. Go(x)
      BY <2>9 DEF StoreAnswer
    <3>2. /\ x \in Handler /\ PutIsTold(x) /\ x.kind = tx[t].kind /\ x.alone = tx[t].alone
          /\ IsWriter(x) => IsWriter(tx[t]) /\ (Knows(tx[t]) => Knows(x))
      BY <2>1, <2>9 DEF StoreAnswer, Handler, PutIsTold, IsWriter, Knows, Idle, AsFlag
    <3> HIDE DEF x
    <3> QED
      BY <3>1, <3>2, <2>3
  <2>10. CASE Serve(t)
    <3> DEFINE x == [tx[t] EXCEPT !.at = "done"]
    <3>1. Go(x)
      BY <2>10 DEF Serve
    <3>2. /\ x \in Handler /\ PutIsTold(x) /\ x.kind = tx[t].kind /\ x.alone = tx[t].alone
          /\ IsWriter(x) => IsWriter(tx[t]) /\ (Knows(tx[t]) => Knows(x))
      BY <2>1, <2>10 DEF Serve, Handler, PutIsTold, IsWriter, Knows, Idle, AsFlag
    <3> HIDE DEF x
    <3> QED
      BY <3>1, <3>2, <2>3
  <2>11. CASE Commit(t)
    <3>1. /\ tx[t].at = "done" /\ End(t) /\ UNCHANGED <<bot, stream>>
          /\ tx'[t] = Idle /\ \A o \in Task \ {t} : tx'[o] = tx[o]
          /\ flag' = IF tx[t].put # "none" THEN tx[t].put ELSE IF flag = "norow" THEN "no" ELSE flag
          /\ calm' = IF IsWriter(tx[t]) THEN tx[t].alone ELSE calm
      BY <2>11 DEF Commit, End, IInv, TypeOK
    <3>2. CASE IsWriter(tx[t])
      <4>1. tx[t].put # "none" /\ tx[t].kind \in {"status", "command"}
        BY <2>1, <3>1, <3>2 DEF IsWriter, PutIsTold, Handler
      <4>2. calm' /\ stream = << >> => (tx[t].put = "yes" <=> bot = "admin")
        <5>1. calm' = tx[t].alone /\ tx[t].alone \in BOOLEAN
          BY <2>1, <3>1, <3>2 DEF Handler
        <5> QED
          BY <2>1, <2>2, <3>1, <3>2, <4>1, <5>1 DEF Alone, Knows, PutIsTold, AsFlag
      <4>3. FlagExact'
        BY <3>1, <4>1, <4>2 DEF FlagExact
      <4> QED
        BY <3>1, <4>3, EndKeeps
    <3>3. CASE ~IsWriter(tx[t])
      <4>1. tx[t].kind = "command" /\ tx[t].put = "none"
        BY <2>1, <3>3 DEF IsWriter, Handler
      <4>2. FlagExact'
        BY <3>1, <3>3, <4>1 DEF IInv, FlagExact
      <4> QED
        BY <3>1, <4>2, EndKeeps
    <3> QED
      BY <3>2, <3>3
  <2> QED
    BY <1>7, <2>4, <2>5, <2>6, <2>7, <2>8, <2>9, <2>10, <2>11 DEF Step
<1> QED
  BY <1>1, <1>2, <1>3, <1>4, <1>5, <1>6, <1>7 DEF Next, IInv

\* With no status update on its way, a flag whose last writer ran alone and that nothing
\* failed since says what Telegram says, however many handlers raced before.
THEOREM FlagExactHolds == Spec => []FlagExact
<1>1. Init => IInv
  <2>1. ASSUME Init PROVE TypeOK /\ \A t \in Task : tx[t] = Idle /\ ~IsWriter(tx[t])
    BY <2>1 DEF Init, TypeOK, Flag, Status, IsWriter
  <2>2. ASSUME Init PROVE StreamLast /\ FlagExact
    BY <2>2 DEF Init, StreamLast, FlagExact
  <2> QED
    BY <2>1, <2>2 DEF IInv, PutsWhatItKnows, AloneIsAlone, Alone, AloneKnows
<1>2. IInv => FlagExact
  BY DEF IInv
<1> QED
  BY <1>1, <1>2, InvStep, PTL DEF Spec
=============================================================================
