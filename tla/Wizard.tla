------------------------------- MODULE Wizard -------------------------------
(***************************************************************************)
(* The interactive /addexpense wizard of one user in one chat: the draft   *)
(* in the FSM storage, the anchor message with its buttons, the ForceReply *)
(* prompts, and the handlers that work on them concurrently.  The storage  *)
(* is in memory, so a handler runs from one network or database call to    *)
(* the next without interruption; at the call others run, and it continues *)
(* on whatever they made of the draft.                                     *)
(*                                                                         *)
(* A message is known by what it says: a prompt by what it asks, the       *)
(* anchor by the screen it shows, which of shares either offers Confirm or *)
(* does not, as it was when it was painted.  Replies to anything but the live       *)
(* prompt and taps on anything but the live anchor are dropped by the code *)
(* before they have an effect, and are left out.  So are pages of the      *)
(* roster and the description's text.                                      *)
(***************************************************************************)
EXTENDS Naturals, Sequences, FiniteSets, Split

CONSTANTS
  Task,    \* slots for concurrently running handlers
  Person,  \* people who can be on a roster
  Members, \* what list_members returns: a list of people for each scope
  Mode,    \* the uneven split modes offered
  Cents,   \* the amounts typed, in cents
  Number,  \* the shares typed: cents, percents or weights
  Verb     \* the buttons that get tapped

Scope  == {"event", "general"}
Screen == {"participants", "split_mode", "share_entry"}
State  == {"none", "amount", "description"} \cup Screen
Face   == Screen \cup {"share_ready"}
Index  == 1..Cardinality(Person)

ASSUME WizardPeople  == IsFiniteSet(Person)
ASSUME WizardMembers == \A s \in Scope : Members[s] \in Seq(Person) /\ Len(Members[s]) <= Cardinality(Person)
ASSUME WizardModes   == Mode \subseteq {"exact", "percent", "weighted"}
ASSUME WizardNumbers == Cents \subseteq Nat \ {0} /\ Number \subseteq Nat \ {0}

VARIABLES
  fsm,   \* the FSM state; "none" when no wizard runs
  draft, \* the FSM data
  task,  \* each handler: the call it awaits and what it carries over it
  filed  \* expenses recorded from the present draft (history)

vars == <<fsm, draft, task, filed>>

\* A prompt: what it asks for, and of a share also in which unit and whose: the
\* place in which roster.
Prompt   == [about : {"nothing", "amount", "description", "share"},
             mode : {"equal"} \cup Mode, idx : 0..Cardinality(Person), of : {"none"} \cup Scope]
NoPrompt == [about |-> "nothing", mode |-> "equal", idx |-> 0, of |-> "none"]
Ask(about) == [NoPrompt EXCEPT !.about = about]

\* The FSM data when there is none: late handlers may still add a key to it, but
\* only start_wizard makes it live.
NoDraft == [live |-> FALSE, event |-> FALSE, force |-> FALSE, mode |-> "equal",
            shares |-> << >>, prompt |-> NoPrompt, amount |-> 0, currency |-> "none",
            roster |-> "none", selected |-> {}, pending |-> 0, anchor |-> "none",
            submitting |-> FALSE]

Idle == [at |-> "idle"]

-----------------------------------------------------------------------------
(* What the wizard makes of a draft.                                       *)

\* _use_event_scope, and with it the scope of the write and the default currency.
ScopeOf(d) == IF d.event /\ ~d.force THEN "event" ELSE "general"

RosterOf(d) == IF d.roster = "none" THEN << >> ELSE Members[d.roster]
Everyone(d) == DOMAIN RosterOf(d)

\* The shares that split the amount among the people selected.
Entered(d) == [i \in d.selected |-> d.shares[i]]

\* Whether an uneven split adds up: the checks of _submit and _is_reconciled.
Reconciled(d) ==
  /\ d.selected # {}
  /\ d.selected \subseteq DOMAIN d.shares
  /\ d.mode = "percent" => Total(Entered(d)) = 100
  /\ d.mode = "exact"   => Total(Entered(d)) = d.amount

\* What is painted of a draft in this state: shares that add up come with Confirm.
FaceOf(d, state) == IF state = "share_entry" /\ Reconciled(d) THEN "share_ready" ELSE state

\* The buttons of a face, those for a person given by the person's place.
Buttons(d, face) ==
  CASE face = "participants" -> {"all", "clear", "amt", "desc", "eq", "pdone", "x"}
                                  \cup (IF d.event THEN {"gen"} ELSE {})
    [] face = "split_mode"   -> Mode \cup {"back", "x"}
    [] face = "share_entry"  -> {"back", "x"}
    [] face = "share_ready"  -> {"back", "x", "ok"}

\* No renderer for this state, or a KeyError on what the draft lacks.
Renders(d, state) ==
  /\ state \in Screen
  /\ d.amount # 0
  /\ state = "share_entry" => d.roster # "none"

\* _repaint and _resend_anchor: what a handler awaits after them.
Repaint(d, state) ==
  IF Renders(d, state) /\ d.anchor # "none"
    THEN [at |-> "painting", shows |-> FaceOf(d, state)] ELSE Idle
Resend(d, state) ==
  IF Renders(d, state) THEN [at |-> "resending", shows |-> FaceOf(d, state)] ELSE Idle

\* An edit of an anchor that is no longer the draft's changes nothing any more.
Orphaned == [t \in Task |-> IF task[t].at = "painting" THEN Idle ELSE task[t]]

Init ==
  /\ fsm   = "none"
  /\ draft = NoDraft
  /\ task  = [t \in Task |-> Idle]
  /\ filed = 0

-----------------------------------------------------------------------------
(* Beginning and abandoning a draft.                                       *)

Asking(prompt, then) == [at |-> "asking", prompt |-> prompt, then |-> then]

\* start_wizard: whatever draft there was is replaced at once.
Start(t) ==
  /\ task[t] = Idle
  /\ fsm' = "amount"
  /\ \E event \in BOOLEAN : draft' = [NoDraft EXCEPT !.live = TRUE, !.event = event]
  /\ task' = [x \in Task |-> IF x = t THEN Asking(Ask("amount"), "nothing")
                             ELSE IF task[x].at = "adding" THEN [task[x] EXCEPT !.own = FALSE]
                             ELSE Orphaned[x]]
  /\ filed' = 0

\* state.clear()
Clear(tasks) ==
  /\ fsm' = "none"
  /\ draft' = NoDraft
  /\ task' = tasks

\* /cancel
CancelCommand(t) ==
  /\ task[t] = Idle
  /\ fsm # "none"
  /\ Clear(Orphaned)
  /\ UNCHANGED filed

-----------------------------------------------------------------------------
(* Replies to the live prompt, whatever it asked: the FSM state decides.   *)

Replies(t, state) == task[t] = Idle /\ fsm = state /\ draft.prompt # NoPrompt

\* The user's reply is deleted, then the prompt; then the handler goes on.
Dropping(next) == [at |-> "dropping", next |-> next]

\* on_amount: the first amount opens the roster; a later one keeps the selection.
ReplyAmount(t) ==
  /\ Replies(t, "amount")
  /\ draft.live
  /\ \E amount \in Cents, currency \in {ScopeOf(draft), "pinned"} :
       LET d == [draft EXCEPT !.amount = amount, !.currency = currency] IN
       /\ draft' = d
       /\ IF d.roster = "none"
            THEN /\ task' = [task EXCEPT ![t] = [at |-> "loading", scope |-> ScopeOf(d), open |-> TRUE]]
                 /\ UNCHANGED fsm
            ELSE /\ task' = [task EXCEPT ![t] = Dropping(Idle)]
                 /\ fsm' = "participants"
  /\ UNCHANGED filed

\* An amount that does not parse is asked for again.
ReplyBadAmount(t) ==
  /\ Replies(t, "amount")
  /\ draft.live
  /\ task' = [task EXCEPT ![t] = Asking(Ask("amount"), "nothing")]
  /\ UNCHANGED <<fsm, draft, filed>>

\* on_description
ReplyDescription(t) ==
  /\ Replies(t, "description")
  /\ fsm' = "participants"
  /\ task' = [task EXCEPT ![t] = Dropping(Idle)]
  /\ UNCHANGED <<draft, filed>>

\* on_share: the number is filed under the pending index, in the mode set now.
ReplyShare(t) ==
  /\ Replies(t, "share_entry")
  /\ draft.live
  /\ draft.pending # 0
  /\ \E n \in Number :
       draft' = [draft EXCEPT !.shares = [i \in DOMAIN @ \cup {draft.pending} |->
                                            IF i = draft.pending THEN n ELSE @[i]],
                              !.pending = 0]
  /\ task' = [task EXCEPT ![t] = Dropping(Idle)]
  /\ UNCHANGED <<fsm, filed>>

\* A share that does not parse is asked for again, in the mode set now.
ReplyBadShare(t) ==
  /\ Replies(t, "share_entry")
  /\ draft.live
  /\ draft.pending # 0
  /\ task' = [task EXCEPT ![t] =
                Dropping(Asking([draft.prompt EXCEPT !.mode = draft.mode], "nothing"))]
  /\ UNCHANGED <<fsm, draft, filed>>

-----------------------------------------------------------------------------
(* Taps on the anchor.  It may show a face the draft has left: its repaint is *)
(* late, or failed.  So Confirm may be tapped on a draft that adds up no more, *)
(* or is split equally again.  The places on its buttons are taken to be those *)
(* the draft has now: a handler drops any other.                               *)

OnFace(t, face, v) == task[t] = Idle /\ draft.live /\ draft.anchor = face /\ v \in Verb
Tapped(t, v) == \E face \in Face : OnFace(t, face, v) /\ v \in Buttons(draft, face)

\* _cancel
Cancel(t) ==
  /\ Tapped(t, "x")
  /\ Clear(Orphaned)
  /\ UNCHANGED filed

\* _prompt_amount, _prompt_description
PromptAgain(t) ==
  /\ \E about \in {"amount", "description"} :
       /\ Tapped(t, IF about = "amount" THEN "amt" ELSE "desc")
       /\ task' = [task EXCEPT ![t] = Asking(Ask(about), "state")]
  /\ UNCHANGED <<fsm, draft, filed>>

\* _toggle_general: scope and currency flip now, the roster when it is loaded.
ToggleGeneral(t) ==
  LET force == ~draft.force
      scope == ScopeOf([draft EXCEPT !.force = force])
  IN  /\ Tapped(t, "gen")
      /\ draft.event
      /\ draft' = [draft EXCEPT !.force = force, !.currency = IF @ = "pinned" THEN @ ELSE scope]
      /\ task' = [task EXCEPT ![t] = [at |-> "loading", scope |-> scope, open |-> FALSE]]
      /\ UNCHANGED <<fsm, filed>>

\* _roster_repaint
EditSelection(t, selected) ==
  /\ draft' = [draft EXCEPT !.selected = selected]
  /\ fsm' = "participants"
  /\ task' = [task EXCEPT ![t] = Repaint(draft', "participants")]
  /\ UNCHANGED filed

\* _select_all, _clear_selection, _toggle_participant
SelectAll(t)      == Tapped(t, "all") /\ EditSelection(t, Everyone(draft))
ClearSelection(t) == Tapped(t, "clear") /\ EditSelection(t, {})
ToggleParticipant(t) ==
  \E i \in Everyone(draft) :
    /\ OnFace(t, "participants", "p")
    /\ EditSelection(t, IF i \in draft.selected THEN draft.selected \ {i}
                                                 ELSE draft.selected \cup {i})

GoTo(t, screen) ==
  /\ fsm' = screen
  /\ task' = [task EXCEPT ![t] = Repaint(draft', screen)]
  /\ UNCHANGED filed

ParticipantsDone(t) ==
  /\ Tapped(t, "pdone")
  /\ draft.selected # {}
  /\ UNCHANGED draft
  /\ GoTo(t, "split_mode")

\* Mutant of Back: to a screen the flow no longer has.
BackToConfirm(t) ==
  /\ Tapped(t, "back")
  /\ UNCHANGED draft
  /\ GoTo(t, IF fsm = "split_mode" THEN "participants" ELSE "confirm")

Back(t) ==
  /\ Tapped(t, "back")
  /\ UNCHANGED draft
  /\ GoTo(t, IF fsm = "split_mode" THEN "participants" ELSE "split_mode")

SetMode(t) ==
  \E mode \in Mode :
    /\ Tapped(t, mode)
    /\ draft' = [draft EXCEPT !.mode = mode, !.shares = << >>]
    /\ GoTo(t, "share_entry")

PromptShare(t) ==
  \E i \in draft.selected :
    /\ OnFace(t, "share_entry", "s") \/ OnFace(t, "share_ready", "s")
    /\ draft.mode # "equal"
    /\ task' = [task EXCEPT ![t] = Asking([about |-> "share", mode |-> draft.mode, idx |-> i,
                                           of |-> draft.roster], "pending")]
    /\ UNCHANGED <<fsm, draft, filed>>

\* Mutant of Claim: the slot is not claimed.
ClaimLate(t, d) ==
  /\ draft' = d
  /\ task' = [task EXCEPT ![t] =
                [at |-> "adding", own |-> TRUE, scope |-> ScopeOf(d), currency |-> d.currency,
                 amount |-> d.amount, mode |-> d.mode, roster |-> d.roster,
                 split |-> IF d.mode = "equal" THEN Equally(d.selected) ELSE Entered(d)]]

\* The slot is claimed before the INSERT is awaited.
Claim(t, d) ==
  /\ draft' = [d EXCEPT !.submitting = TRUE]
  /\ task' = [task EXCEPT ![t] =
                [at |-> "adding", own |-> TRUE, scope |-> ScopeOf(d), currency |-> d.currency,
                 amount |-> d.amount, mode |-> d.mode, roster |-> d.roster,
                 split |-> IF d.mode = "equal" THEN Equally(d.selected) ELSE Entered(d)]]

\* Mutant of Submit: Confirm is offered only for shares that add up.
SubmitTrusting(t, d) ==
  LET ready == /\ ~d.submitting
               /\ d.selected # {} /\ d.roster # "none" /\ d.amount # 0
               /\ d.mode # "equal" => d.selected \subseteq DOMAIN d.shares
  IN  /\ \/ ready /\ Claim(t, d)
         \/ ~ready /\ draft' = d /\ UNCHANGED task
      /\ UNCHANGED <<fsm, filed>>

\* _submit
Submit(t, d) ==
  LET ready == /\ ~d.submitting
               /\ d.selected # {} /\ d.roster # "none" /\ d.amount # 0
               /\ d.mode # "equal" => Reconciled(d)
  IN  /\ \/ ready /\ Claim(t, d)
         \/ ~ready /\ draft' = d /\ UNCHANGED task
      /\ UNCHANGED <<fsm, filed>>

\* _add_equal, and Confirm of the share screen
AddEqual(t) == Tapped(t, "eq") /\ Submit(t, [draft EXCEPT !.mode = "equal", !.shares = << >>])
Confirm(t)  == Tapped(t, "ok") /\ Submit(t, draft)

-----------------------------------------------------------------------------
(* The rest of a handler, once the call it awaited returns.                *)

\* A prompt was sent.
Asked(t) ==
  LET w == task[t] IN
  /\ w.at = "asking"
  /\ draft' = [draft EXCEPT !.prompt = w.prompt,
                            !.pending = IF w.then = "pending" THEN w.prompt.idx ELSE @]
  /\ fsm' = IF w.then = "state" THEN w.prompt.about ELSE fsm
  /\ task' = [task EXCEPT ![t] = Idle]
  /\ UNCHANGED filed

\* Mutant of Loaded: the selection made on the old roster is kept.
LoadedKeepsSelection(t) ==
  LET w == task[t]
      d == [draft EXCEPT !.roster = w.scope, !.prompt = IF w.open THEN NoPrompt ELSE @,
                         !.selected = IF w.open THEN DOMAIN Members[w.scope] ELSE @]
  IN  /\ w.at = "loading"
      /\ draft' = d
      /\ fsm' = "participants"
      /\ task' = [task EXCEPT ![t] = IF w.open THEN Resend(d, fsm') ELSE Repaint(d, fsm')]
      /\ UNCHANGED filed

\* _reload_roster has its members: everybody is selected, and the screen is redone.
Loaded(t) ==
  LET w == task[t]
      d == [draft EXCEPT !.roster = w.scope, !.selected = DOMAIN Members[w.scope],
                         !.prompt = IF w.open THEN NoPrompt ELSE @]
  IN  /\ w.at = "loading"
      /\ draft' = d
      /\ fsm' = "participants"
      /\ task' = [task EXCEPT ![t] = IF w.open THEN Resend(d, fsm') ELSE Repaint(d, fsm')]
      /\ UNCHANGED filed

\* _clear_prompt, unless another handler has done it; then the anchor or a new prompt.
GoOn(t, d) == [task EXCEPT ![t] = IF @.next = Idle THEN Resend(d, fsm) ELSE @.next]
Dropped(t) ==
  /\ task[t].at = "dropping"
  /\ task' = IF draft.prompt = NoPrompt THEN GoOn(t, draft)
                                        ELSE [task EXCEPT ![t].at = "clearing"]
  /\ UNCHANGED <<fsm, draft, filed>>
Cleared(t) ==
  /\ task[t].at = "clearing"
  /\ draft' = [draft EXCEPT !.prompt = NoPrompt]
  /\ task' = GoOn(t, draft')
  /\ UNCHANGED <<fsm, filed>>

\* The fresh anchor is posted and replaces the old one.
Resent(t) ==
  /\ task[t].at = "resending"
  /\ draft' = [draft EXCEPT !.anchor = task[t].shows]
  /\ task' = [Orphaned EXCEPT ![t] = Idle]
  /\ UNCHANGED <<fsm, filed>>

\* An edit arrives, in whatever order.
Painted(t) ==
  /\ task[t].at = "painting"
  /\ draft' = [draft EXCEPT !.anchor = task[t].shows]
  /\ task' = [task EXCEPT ![t] = Idle]
  /\ UNCHANGED <<fsm, filed>>

\* The expense is written; state.clear().
Added(t) ==
  /\ task[t].at = "adding"
  /\ filed' = IF task[t].own THEN filed + 1 ELSE filed
  /\ Clear([Orphaned EXCEPT ![t] = Idle])

\* Any awaited call may raise, which ends the handler where it is.
Raise(t) ==
  /\ task[t] # Idle
  /\ task' = [task EXCEPT ![t] = Idle]
  /\ UNCHANGED <<fsm, draft, filed>>

-----------------------------------------------------------------------------

Reply(t) == \/ ReplyAmount(t) \/ ReplyBadAmount(t) \/ ReplyDescription(t)
            \/ ReplyShare(t) \/ ReplyBadShare(t)

\* on_wizard_action
Tap(t) == \/ Cancel(t) \/ PromptAgain(t) \/ ToggleGeneral(t)
          \/ SelectAll(t) \/ ClearSelection(t) \/ ToggleParticipant(t)
          \/ ParticipantsDone(t) \/ Back(t) \/ SetMode(t) \/ PromptShare(t)
          \/ AddEqual(t) \/ Confirm(t)

Resume(t) == \/ Asked(t) \/ Loaded(t) \/ Dropped(t) \/ Cleared(t) \/ Resent(t)
             \/ Painted(t) \/ Added(t) \/ Raise(t)

Act(t) == Start(t) \/ CancelCommand(t) \/ Reply(t) \/ Tap(t) \/ Resume(t)

Next == \E t \in Task : Act(t)

Spec == Init /\ [][Next]_vars

-----------------------------------------------------------------------------
(* Properties.                                                             *)

TypeOK ==
  /\ fsm \in State
  /\ filed \in Nat
  /\ \A b \in {"live", "event", "force", "submitting"} : draft[b] \in BOOLEAN
  /\ draft.mode \in {"equal"} \cup Mode
  /\ DOMAIN draft.shares \subseteq Index /\ \A i \in DOMAIN draft.shares : draft.shares[i] \in Number
  /\ draft.prompt \in Prompt
  /\ draft.amount \in Cents \cup {0}
  /\ draft.currency \in Scope \cup {"none", "pinned"}
  /\ draft.roster \in Scope \cup {"none"}
  /\ draft.selected \subseteq Index
  /\ draft.pending \in Index \cup {0}
  /\ draft.anchor \in Face \cup {"none"}
  /\ \A t \in Task : task[t].at \in {"idle", "asking", "loading", "dropping", "clearing",
                                       "resending", "painting", "adding"}

Adding == {t \in Task : task[t].at = "adding"}

\* A selected index always names somebody on the roster the draft holds, whichever
\* reloads race: no handler can raise an IndexError.
SelectedInRoster == draft.selected \subseteq Everyone(draft)

\* A draft is recorded at most once, however often Confirm and Add are tapped.
OneExpensePerDraft == filed + Cardinality({t \in Adding : task[t].own}) <= 1

\* What the wizard submits is never rejected by compute_shares, although amount,
\* selection and mode may have changed after the shares were entered.
ServiceAccepts ==
  \A t \in Adding : Valid(task[t].amount, task[t].mode, task[t].split)

\* The people charged are from the roster of the scope the expense is filed under.
RosterFollowsScope == \A t \in Adding : task[t].roster = task[t].scope

\* A number entered as a share answers a live prompt for that share of that person
\* in that unit.
AnswersItsPrompt ==
  [][\A i \in DOMAIN draft'.shares :
       i \notin DOMAIN draft.shares \/ draft'.shares[i] # draft.shares[i] =>
         draft.prompt = [about |-> "share", mode |-> draft.mode, idx |-> i, of |-> draft.roster]]_vars
=============================================================================
