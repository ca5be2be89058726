------------------------------ MODULE AdminGate ------------------------------
(***************************************************************************)
(* The admin gate of one group: groups.bot_is_admin, a stored copy of what *)
(* Telegram knows, and the two kinds of handler that write it.  A change   *)
(* of the bot's own status arrives as a my_chat_member update; a command   *)
(* that finds the flag false asks Telegram and stores the answer.  Updates *)
(* are handed out in order but handled concurrently, each in a transaction *)
(* that is rolled back when the handler raises, and none comes twice.      *)
(*                                                                         *)
(* What a served command does is other modules' business: here it makes    *)
(* the group's row if there is none.  Buttons and /help pass the gate and  *)
(* leave the flag alone.                                                   *)
(***************************************************************************)
EXTENDS Naturals, Sequences

CONSTANTS
  Task,     \* slots for concurrently running handlers
  NoTask,   \* the group row is unlocked
  MaxStream \* bound on status updates not handed out yet

ASSUME GateDistinct == NoTask \notin Task
ASSUME GateBound    == MaxStream \in Nat

VARIABLES
  bot,    \* Telegram's: the bot's status in the chat
  stream, \* the my_chat_member updates on their way
  flag,   \* committed groups.bot_is_admin, or that there is no row
  lock,   \* holder of the groups row lock
  tx,     \* the handlers
  calm    \* whether the flag's last writer ran alone and none failed since (history)

vars == <<bot, stream, flag, lock, tx, calm>>

Status == {"away", "member", "admin"}
Flag   == {"norow", "no", "yes"}
Idle   == [at |-> "idle"]

\* A running handler: where it is; the status it is to record, if it is not a command;
\* what Telegram answered; the flag it writes, if it does; and whether no other
\* writer has been beside it (history).
Handler == [at : {"status", "clearing", "command", "ask", "answered", "passed", "done"},
            kind : {"status", "command"}, now : Status, answer : BOOLEAN,
            put : {"none", "no", "yes"}, alone : BOOLEAN]

AsFlag(isAdmin) == IF isAdmin THEN "yes" ELSE "no"

\* Whether a handler is going to write the flag.
IsWriter(x) ==
  x # Idle /\ (x.kind = "status" \/ x.at \in {"ask", "answered"} \/ x.put # "none")

Others(t) == {o \in Task \ {t} : IsWriter(tx[o])}

\* Handler t becomes the writer x beside the present ones.
StartWriting(t, x) ==
  tx' = [o \in Task |->
           IF o = t THEN [x EXCEPT !.alone = (Others(t) = {})]
           ELSE IF o \in Others(t) THEN [tx[o] EXCEPT !.alone = FALSE] ELSE tx[o]]

Init ==
  /\ bot    \in Status
  /\ flag   \in {"norow", "no"}
  /\ stream = << >>
  /\ lock   = NoTask
  /\ tx     = [t \in Task |-> Idle]
  /\ calm   = (bot # "admin")

\* Somebody adds, promotes, demotes or removes the bot, or edits its rights.
SetStatus(s) ==
  /\ Len(stream) < MaxStream
  /\ bot'    = s
  /\ stream' = Append(stream, s)
  /\ UNCHANGED <<flag, lock, tx, calm>>

-----------------------------------------------------------------------------
(* Beginning and ending a handler.                                         *)

\* The poller hands out the next status update.
ReceiveStatus(t) ==
  /\ tx[t] = Idle
  /\ stream # << >>
  /\ stream' = Tail(stream)
  /\ StartWriting(t, [at |-> "status", kind |-> "status", now |-> Head(stream),
                      answer |-> FALSE, put |-> "none", alone |-> TRUE])
  /\ UNCHANGED <<bot, flag, lock, calm>>

\* A command arrives from a chat the bot is in.
ReceiveCommand(t) ==
  /\ tx[t] = Idle
  /\ bot # "away"
  /\ tx' = [tx EXCEPT ![t] = [at |-> "command", kind |-> "command", now |-> "away",
                              answer |-> FALSE, put |-> "none", alone |-> TRUE]]
  /\ UNCHANGED <<bot, stream, flag, lock, calm>>

End(t) ==
  /\ tx'   = [tx EXCEPT ![t] = Idle]
  /\ lock' = IF lock = t THEN NoTask ELSE lock
  /\ UNCHANGED <<bot, stream>>

\* The handler returned: its flag is committed, or the row its upsert made.
Commit(t) ==
  LET x == tx[t] IN
  /\ x.at = "done"
  /\ flag' = IF x.put # "none" THEN x.put ELSE IF flag = "norow" THEN "no" ELSE flag
  /\ calm' = IF IsWriter(x) THEN x.alone ELSE calm
  /\ End(t)

\* The database, getChatMember, or the welcome, nudge or reply failed: roll back.
Raise(t) ==
  /\ tx[t] # Idle
  /\ calm' = (calm /\ tx[t].kind = "command")
  /\ End(t)
  /\ UNCHANGED flag

-----------------------------------------------------------------------------
(* on_my_chat_member.                                                      *)

\* Mutant of NoteRemoved: a removed bot's flag is left as it is.
NoteRemovedOnly(t) ==
  /\ tx[t].at = "status"
  /\ tx[t].now = "away"
  /\ calm' = tx[t].alone
  /\ End(t)
  /\ UNCHANGED flag

\* Removed: look the group up without a lock; without a row there is nothing to do.
NoteRemoved(t) ==
  /\ tx[t].at = "status"
  /\ tx[t].now = "away"
  /\ \/ /\ flag = "norow"
        /\ calm' = tx[t].alone
        /\ End(t)
        /\ UNCHANGED flag
     \/ /\ flag # "norow"
        /\ tx' = [tx EXCEPT ![t].at = "clearing"]
        /\ UNCHANGED <<bot, stream, flag, lock, calm>>

\* Mutant of RecordStatus: the status itself is stored, not whether it is admin.
RecordStatusRaw(t) ==
  /\ tx[t].at = "status"
  /\ tx[t].now # "away"
  /\ lock = NoTask
  /\ lock' = t
  /\ tx' = [tx EXCEPT ![t].at = "done", ![t].put = tx[t].now]
  /\ UNCHANGED <<bot, stream, flag, calm>>

\* Present: upsert the group and set the flag, then welcome or nudge.
RecordStatus(t) ==
  /\ tx[t].at = "status"
  /\ tx[t].now # "away"
  /\ lock = NoTask
  /\ lock' = t
  /\ tx' = [tx EXCEPT ![t].at = "done", ![t].put = AsFlag(tx[t].now = "admin")]
  /\ UNCHANGED <<bot, stream, flag, calm>>

\* set_bot_admin(False) waits for the row lock like any UPDATE.
ClearFlag(t) ==
  /\ tx[t].at = "clearing"
  /\ lock = NoTask
  /\ lock' = t
  /\ tx' = [tx EXCEPT ![t].at = "done", ![t].put = "no"]
  /\ UNCHANGED <<bot, stream, flag, calm>>

-----------------------------------------------------------------------------
(* AdminGateMiddleware.                                                    *)

\* get_by_telegram_chat_id, without a lock: no row, or a true flag, lets it pass.
CheckFlag(t) ==
  /\ tx[t].at = "command"
  /\ \/ /\ flag # "no"
        /\ tx' = [tx EXCEPT ![t].at = "passed"]
     \/ /\ flag = "no"
        /\ StartWriting(t, [tx[t] EXCEPT !.at = "ask"])
  /\ UNCHANGED <<bot, stream, flag, lock, calm>>

\* getChatMember of the bot itself.
AskTelegram(t) ==
  /\ tx[t].at = "ask"
  /\ tx' = [tx EXCEPT ![t].at = "answered", ![t].answer = (bot = "admin")]
  /\ UNCHANGED <<bot, stream, flag, lock, calm>>

\* Mutant of StoreAnswer: only the reply follows the answer.
StoreNothing(t) ==
  /\ tx[t].at = "answered"
  /\ lock = NoTask
  /\ lock' = t
  /\ tx' = [tx EXCEPT ![t].put = "no",
                      ![t].at = IF tx[t].answer THEN "passed" ELSE "done"]
  /\ UNCHANGED <<bot, stream, flag, calm>>

\* set_bot_admin(answer): serve the command, or reply that the bot needs promotion.
StoreAnswer(t) ==
  /\ tx[t].at = "answered"
  /\ lock = NoTask
  /\ lock' = t
  /\ tx' = [tx EXCEPT ![t].put = AsFlag(tx[t].answer),
                      ![t].at = IF tx[t].answer THEN "passed" ELSE "done"]
  /\ UNCHANGED <<bot, stream, flag, calm>>

\* The command's handler: groups.upsert, then its own business.
Serve(t) ==
  /\ tx[t].at = "passed"
  /\ lock \in {NoTask, t}
  /\ lock' = t
  /\ tx' = [tx EXCEPT ![t].at = "done"]
  /\ UNCHANGED <<bot, stream, flag, calm>>

-----------------------------------------------------------------------------

Step(t) == \/ NoteRemoved(t) \/ RecordStatus(t) \/ ClearFlag(t)
           \/ CheckFlag(t) \/ AskTelegram(t) \/ StoreAnswer(t) \/ Serve(t)
           \/ Commit(t)

Next == \/ \E s \in Status : SetStatus(s)
        \/ \E t \in Task : ReceiveStatus(t) \/ ReceiveCommand(t) \/ Step(t) \/ Raise(t)

Spec == Init /\ [][Next]_vars

\* The poller goes on, and so does a started handler: PostgreSQL grants the row lock
\* in turn, and calls return or fail.
Fairness == /\ SF_vars(\E t \in Task : ReceiveStatus(t))
            /\ \A t \in Task : SF_vars(Step(t))
FairSpec == Spec /\ Fairness

-----------------------------------------------------------------------------
(* Properties.                                                             *)

TypeOK ==
  /\ bot    \in Status
  /\ stream \in Seq(Status)
  /\ flag   \in Flag
  /\ lock   \in Task \cup {NoTask}
  /\ tx     \in [Task -> {Idle} \cup Handler]
  /\ calm   \in BOOLEAN

\* With no status update on its way or being handled, the stored flag is what
\* Telegram would say, unless a writer of the flag was overtaken or failed since.
FlagExact ==
  stream = << >> /\ calm /\ (\A t \in Task : tx[t] # Idle => tx[t].kind = "command")
    => (flag = "yes" <=> bot = "admin")

\* The same whatever was overtaken or failed: the flag is "kept current by the
\* my_chat_member stream".  A stale yes is never looked at again.
FlagCurrent ==
  stream = << >> /\ (\A t \in Task : tx[t] = Idle) => (flag = "yes" => bot = "admin")

Asking == \E t \in Task : tx[t] # Idle /\ tx[t].at = "command"

\* A bot that is promoted for good and still spoken to ends up serving, once calls
\* have stopped failing and whatever was lost or overtaken before: the gate heals a
\* flag that is wrongly false.
SelfHeals ==
  /\ <>[](bot = "admin")
  /\ []<>Asking
  /\ <>[][\A t \in Task : ~Raise(t)]_vars
  => <>[](flag = "yes")
=============================================================================
