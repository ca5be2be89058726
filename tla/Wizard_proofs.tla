---------------------------- MODULE Wizard_proofs ----------------------------
(***************************************************************************)
(* Three promises of the wizard that survive every interleaving of its     *)
(* handlers: nobody is selected who is not on the roster shown, one draft  *)
(* files one expense, and it is one that compute_shares accepts.           *)
(***************************************************************************)
EXTENDS Wizard, Split_proofs, SequenceTheorems

Holding == UNION {[I -> Number] : I \in SUBSET Index}

Draft == [live : BOOLEAN, event : BOOLEAN, force : BOOLEAN, mode : {"equal"} \cup Mode,
          shares : Holding, prompt : Prompt, amount : Cents \cup {0},
          currency : Scope \cup {"none", "pinned"}, roster : Scope \cup {"none"},
          selected : SUBSET Index, pending : Index \cup {0}, anchor : Face \cup {"none"},
          submitting : BOOLEAN]

\* What a handler carries over its call.
Asks(w) == /\ w.at = "asking"
           /\ w.prompt \in Prompt
           /\ w.then \in {"nothing", "state", "pending"}
           /\ w.then = "state" => w.prompt.about \in {"amount", "description"}
           /\ w.then = "pending" => w.prompt.idx \in Index

\* A handler that is not filing an expense...
Works(w) ==
  \/ w = Idle
  \/ Asks(w)
  \/ w.at = "loading" /\ w.scope \in Scope
  \/ /\ w.at \in {"dropping", "clearing"}
     /\ DOMAIN w = {"at", "next"}
     /\ w.next = Idle \/ Asks(w.next)
  \/ w.at \in {"resending", "painting"} /\ w.shows \in Face

\* ... and one that is: with a split the service accepts.
Files(w) == /\ w.at = "adding" /\ {"at", "own", "amount", "mode", "split"} \subseteq DOMAIN w
            /\ w.own \in BOOLEAN
            /\ Valid(w.amount, w.mode, w.split)

Typed == /\ fsm \in State
         /\ filed \in Nat
         /\ draft \in Draft
         /\ DOMAIN task = Task
         /\ \A t \in Task : Works(task[t]) \/ Files(task[t])

Owns(t) == task[t].at = "adding" /\ task[t].own

\* Of the expenses of the present draft one is on its way, or filed: then the slot
\* stays claimed until the draft is gone.
Once == /\ \A t, o \in Task : Owns(t) /\ Owns(o) => t = o
        /\ \A t \in Task : Owns(t) => filed = 0 /\ (draft.live => draft.submitting)
        /\ filed # 0 => filed = 1 /\ ~draft.live

IInv == Typed /\ SelectedInRoster /\ Once

-----------------------------------------------------------------------------
(* What the helpers return.                                                *)

LEMMA PlacesAreIndices ==
  \A s \in Scope : DOMAIN Members[s] \subseteq Index
<1> SUFFICES ASSUME NEW s \in Scope PROVE DOMAIN Members[s] \subseteq Index
  OBVIOUS
<1>1. Members[s] \in Seq(Person) /\ Len(Members[s]) <= Cardinality(Person)
  BY WizardMembers
<1>2. Len(Members[s]) \in Nat /\ DOMAIN Members[s] = 1..Len(Members[s])
  BY <1>1, LenProperties
<1>3. Cardinality(Person) \in Nat
  BY WizardPeople, FS_CardinalityType
<1> QED  BY <1>1, <1>2, <1>3 DEF Index

LEMMA EveryoneIndexed ==
  \A d : d.roster \in Scope \cup {"none"} => Everyone(d) \subseteq Index
<1> SUFFICES ASSUME NEW d, d.roster \in Scope \cup {"none"} PROVE Everyone(d) \subseteq Index
  OBVIOUS
<1>1. CASE d.roster = "none"
  <2>1. DOMAIN << >> = {}
    OBVIOUS
  <2> QED  BY <1>1, <2>1 DEF Everyone, RosterOf
<1>2. CASE d.roster # "none"
  BY <1>2, PlacesAreIndices DEF Everyone, RosterOf
<1> QED  BY <1>1, <1>2

LEMMA NoShares == << >> \in Holding
<1>1. PICK e : e = << >>
  OBVIOUS
<1>2. e \in [{} -> Number]
  BY <1>1
<1> QED  BY <1>1, <1>2 DEF Holding

LEMMA NoDraftTyped == NoDraft \in Draft
<1>1. NoPrompt \in Prompt
  <2>1. 0 \in 0..Cardinality(Person)
    BY WizardPeople, FS_CardinalityType
  <2> QED  BY <2>1 DEF NoPrompt, Prompt
<1> QED  BY <1>1, NoShares DEF NoDraft, Draft, Scope

LEMMA AskTyped ==
  \A about \in {"amount", "description"} :
    Ask(about) \in Prompt /\ Ask(about).about = about
<1>1. 0 \in 0..Cardinality(Person)
  BY WizardPeople, FS_CardinalityType
<1> QED  BY <1>1 DEF Ask, NoPrompt, Prompt

LEMMA PaintTyped ==
  \A d, state : Works(Repaint(d, state)) /\ Works(Resend(d, state))
BY DEF Repaint, Resend, Renders, Works, FaceOf, Face

\* A handler that is not filing owns nothing.
LEMMA WorksOwnsNot == \A w : Works(w) => w.at # "adding"
BY DEF Works, Asks, Idle

LEMMA InitInv == Init => IInv
<1> SUFFICES ASSUME Init PROVE IInv
  OBVIOUS
<1>1. Typed
  BY NoDraftTyped DEF Init, Typed, State, Works
<1>2. SelectedInRoster
  BY DEF Init, SelectedInRoster, NoDraft
<1>3. Once
  BY DEF Init, Once, Owns, Idle
<1> QED  BY <1>1, <1>2, <1>3 DEF IInv

-----------------------------------------------------------------------------
(* Each step keeps the invariant.                                          *)

\* A step of one handler that neither claims the slot nor ends the draft.
LEMMA WorkKeeps ==
  ASSUME IInv, NEW t \in Task, NEW w, task' = [task EXCEPT ![t] = w], Works(w),
         fsm' \in State, UNCHANGED filed, draft' \in Draft,
         draft'.live = draft.live, draft'.submitting = draft.submitting,
         SelectedInRoster'
  PROVE  IInv'
<1>1. task'[t] = w /\ DOMAIN task' = Task /\ \A x \in Task \ {t} : task'[x] = task[x]
  BY DEF IInv, Typed
<1>2. Typed'
  <2>1. \A x \in Task : Works(task'[x]) \/ Files(task'[x])
    BY <1>1 DEF IInv, Typed
  <2> QED  BY <1>1, <2>1 DEF IInv, Typed, Works, Files, Asks
<1>3. \A x \in Task : Owns(x)' => Owns(x)
  <2>1. ~Owns(t)'
    BY <1>1, WorksOwnsNot DEF Owns
  <2> QED  BY <1>1, <2>1 DEF Owns
<1>4. Once'
  BY <1>3 DEF IInv, Once
<1> QED  BY <1>2, <1>4 DEF IInv

\* The draft is gone, and with it the slot.
LEMMA ClearKeeps ==
  ASSUME IInv, fsm' = "none", draft' = NoDraft, filed' \in {0, 1}, DOMAIN task' = Task,
         \A x \in Task : task'[x] = Idle \/ task'[x] = task[x],
         filed' # 0 => \A x \in Task : ~Owns(x)',
         \A x \in Task : Owns(x)' => Owns(x)
  PROVE  IInv'
<1>1. \A x \in Task : Works(task'[x]) \/ Files(task'[x])
  BY DEF IInv, Typed, Works
<1>2. Typed'
  BY <1>1, NoDraftTyped DEF IInv, Typed, State, Works, Files, Asks
<1>3. ~NoDraft.live /\ NoDraft.selected = {}
  BY DEF NoDraft
<1>4. SelectedInRoster'
  BY <1>3 DEF SelectedInRoster
<1>5. Once'
  BY <1>3 DEF IInv, Once
<1> QED  BY <1>2, <1>4, <1>5 DEF IInv

LEMMA StartKeeps ==
  ASSUME IInv, NEW t \in Task, Start(t)
  PROVE  IInv'
<1>1. PICK event \in BOOLEAN : draft' = [NoDraft EXCEPT !.live = TRUE, !.event = event]
  BY DEF Start
<1>2. draft' \in Draft /\ draft'.selected = {} /\ ~draft'.submitting
  <2>1. NoDraft \in Draft /\ NoDraft.selected = {} /\ ~NoDraft.submitting
    BY NoDraftTyped DEF NoDraft
  <2> QED  BY <1>1, <2>1 DEF Draft
<1>3. DOMAIN task' = Task /\ \A x \in Task : (Works(task'[x]) \/ Files(task'[x])) /\ ~Owns(x)'
  <2>1. DOMAIN task' = Task
    BY DEF Start
  <2>2. Works(task'[t]) /\ ~Owns(t)'
    <3>1. task'[t] = Asking(Ask("amount"), "nothing")
      BY DEF Start
    <3>2. Works(task'[t])
      BY <3>1, AskTyped DEF Asking, Works, Asks
    <3> QED  BY <3>2, WorksOwnsNot DEF Owns
  <2>3. ASSUME NEW x \in Task \ {t}
        PROVE  (Works(task'[x]) \/ Files(task'[x])) /\ ~Owns(x)'
    <3>1. Works(task[x]) \/ Files(task[x])
      BY DEF IInv, Typed
    <3>2. CASE task[x].at = "adding"
      <4>1. Files(task[x])
        BY <3>1, <3>2, WorksOwnsNot
      <4>2. task'[x] = [task[x] EXCEPT !.own = FALSE]
        BY <3>2, <2>3 DEF Start
      <4>3. PICK w, z : w = task[x] /\ z = task'[x]
        OBVIOUS
      <4>4. /\ z = [w EXCEPT !.own = FALSE] /\ w.at = "adding"
            /\ {"at", "own", "amount", "mode", "split"} \subseteq DOMAIN w
            /\ Valid(w.amount, w.mode, w.split)
        BY <4>1, <4>2, <4>3 DEF Files
      <4>5. /\ z.own = FALSE /\ z.at = "adding" /\ DOMAIN z = DOMAIN w
            /\ z.amount = w.amount /\ z.mode = w.mode /\ z.split = w.split
        BY <4>4
      <4> QED  BY <4>3, <4>4, <4>5 DEF Files, Owns
    <3>3. CASE task[x].at # "adding"
      <4>1. task'[x] = Idle \/ task'[x] = task[x]
        BY <2>3, <3>3 DEF Start, Orphaned
      <4>2. Works(task'[x])
        BY <3>1, <3>3, <4>1 DEF Files, Works
      <4> QED  BY <4>2, WorksOwnsNot DEF Owns
    <3> QED  BY <3>2, <3>3
  <2> QED  BY <2>1, <2>2, <2>3
<1>4. fsm' \in State /\ filed' = 0
  BY DEF Start, State
<1>5. Typed'
  BY <1>2, <1>3, <1>4 DEF Typed, Works, Files, Asks
<1>6. SelectedInRoster'
  BY <1>2 DEF SelectedInRoster
<1>7. Once'
  BY <1>3, <1>4 DEF Once
<1> QED  BY <1>5, <1>6, <1>7 DEF IInv

\* /cancel and the Cancel button.
LEMMA CancelKeeps ==
  ASSUME IInv, Clear(Orphaned), UNCHANGED filed
  PROVE  IInv'
<1>1. /\ fsm' = "none" /\ draft' = NoDraft /\ DOMAIN task' = Task
      /\ \A x \in Task : task'[x] = Idle \/ task'[x] = task[x]
  BY DEF Clear, Orphaned
<1>2. \A x \in Task : Owns(x)' => Owns(x)
  BY <1>1 DEF Owns, Idle
<1>3. filed' \in {0, 1} /\ (filed' # 0 => \A x \in Task : ~Owns(x)')
  BY <1>2 DEF IInv, Once
<1> QED  BY <1>1, <1>2, <1>3, ClearKeeps

\* An expense is filed for this draft only by the handler that owns its slot.
LEMMA AddedKeeps ==
  ASSUME IInv, NEW t \in Task, Added(t)
  PROVE  IInv'
<1>1. /\ fsm' = "none" /\ draft' = NoDraft /\ DOMAIN task' = Task /\ task'[t] = Idle
      /\ \A x \in Task : task'[x] = Idle \/ task'[x] = task[x]
  BY DEF Added, Clear, Orphaned
<1>2. /\ ~Owns(t)'
      /\ \A x \in Task : Owns(x)' => Owns(x)
  BY <1>1 DEF Owns, Idle
<1>3. filed' \in {0, 1} /\ (filed' # 0 => \A x \in Task : ~Owns(x)')
  <2>1. CASE task[t].own
    <3>1. Owns(t) /\ filed' = filed + 1
      BY <2>1 DEF Added, Owns
    <3>2. filed = 0 /\ \A x \in Task : Owns(x) => x = t
      BY <3>1 DEF IInv, Once
    <3> QED  BY <1>2, <3>1, <3>2
  <2>2. CASE ~task[t].own
    BY <1>2, <2>2 DEF Added, IInv, Once
  <2> QED  BY <2>1, <2>2
<1> QED  BY <1>1, <1>2, <1>3, ClearKeeps

\* Shares that were entered for everybody selected add up to something.
LEMMA EnteredPositive ==
  ASSUME NEW d \in Draft, d.selected # {}, d.selected \subseteq DOMAIN d.shares
  PROVE  Total(Entered(d)) > 0
<1> DEFINE D == d.selected  f == [x \in D |-> d.shares[x]]
<1>1. IsFiniteSet(D)
  <2>1. Cardinality(Person) \in Nat  BY WizardPeople, FS_CardinalityType
  <2>2. IsFiniteSet(Index)  BY <2>1, FS_Interval DEF Index
  <2>3. D \in SUBSET Index  BY DEF Draft
  <2> QED  BY <2>2, <2>3, FS_Subset
<1>2. \A x \in D : f[x] \in Nat /\ f[x] > 0
  <2>1. \A x \in DOMAIN d.shares : d.shares[x] \in Number  BY DEF Draft, Holding
  <2>2. \A x \in D : d.shares[x] \in Nat \ {0}  BY <2>1, WizardNumbers
  <2> QED  BY <2>2
<1>3. PICK x \in D : TRUE  OBVIOUS
<1>4. f \in [D -> Int] /\ f \in [D -> Nat]
  <2>1. f = [y \in D |-> f[y]]  OBVIOUS
  <2>2. \A y \in D : f[y] \in Nat /\ f[y] \in Int  BY <1>2
  <2> HIDE DEF D, f
  <2> QED  BY <2>1, <2>2
<1>5. f[x] \in Int /\ f[x] > 0  BY <1>2, <1>3
<1>6. Entered(d) = f  BY DEF Entered
<1> HIDE DEF D, f
<1>7. Total(f) = f[x] + Over(f, D \ {x})  BY <1>1, <1>3, <1>4, TotalTake DEF Over
<1>8. Over(f, D \ {x}) \in Nat
  <2>1. D \ {x} \in SUBSET D  OBVIOUS
  <2> QED  BY <1>1, <1>4, <2>1, OverNat
<1> QED  BY <1>5, <1>6, <1>7, <1>8

\* What passes the checks of _submit is a split compute_shares accepts.
LEMMA SubmitsValid ==
  ASSUME NEW d \in Draft, d.selected # {}, d.mode # "equal" => Reconciled(d),
         NEW split, split = IF d.mode = "equal" THEN Equally(d.selected) ELSE Entered(d)
  PROVE  Valid(d.amount, d.mode, split)
<1>1. CASE d.mode = "equal"
  <2>1. split = [u \in d.selected |-> 1]  BY <1>1 DEF Equally
  <2>2. DOMAIN split # {}  BY <2>1
  <2> QED  BY <1>1, <2>2 DEF Valid
<1>2. CASE d.mode # "equal"
  <2>1. Reconciled(d) /\ split = Entered(d)  BY <1>2
  <2>2. d.mode \in {"exact", "percent", "weighted"}  BY <1>2, WizardModes DEF Draft
  <2>3. CASE d.mode = "weighted"
    <3>1. Total(split) > 0  BY <2>1, EnteredPositive DEF Reconciled
    <3> QED  BY <2>3, <3>1 DEF Valid
  <2>4. CASE d.mode = "percent"  BY <2>1, <2>4 DEF Reconciled, Valid
  <2>5. CASE d.mode = "exact"  BY <2>1, <2>5 DEF Reconciled, Valid
  <2> QED  BY <2>2, <2>3, <2>4, <2>5
<1> QED  BY <1>1, <1>2

\* Add and Confirm: the slot is claimed once, while nobody owns it.
LEMMA SubmitKeeps ==
  ASSUME IInv, NEW t \in Task, task[t] = Idle, draft.live, NEW d, d \in Draft,
         d.live = draft.live, d.submitting = draft.submitting,
         d.selected = draft.selected, d.roster = draft.roster,
         Submit(t, d)
  PROVE  IInv'
<1>1. CASE /\ Claim(t, d) /\ ~d.submitting /\ d.selected # {}
           /\ d.mode # "equal" => Reconciled(d)
  <2>1. draft' = [d EXCEPT !.submitting = TRUE]
    BY <1>1 DEF Claim
  <2>2. draft' \in Draft /\ draft'.submitting /\ draft'.selected = d.selected /\ draft'.roster = d.roster
    BY <2>1 DEF Draft
  <2>3. PICK w : task' = [task EXCEPT ![t] = w] /\ Files(w)
    <3>1. PICK split : split = IF d.mode = "equal" THEN Equally(d.selected) ELSE Entered(d)
      OBVIOUS
    <3>2. PICK w : w = [at |-> "adding", own |-> TRUE, scope |-> ScopeOf(d), currency |-> d.currency,
                        amount |-> d.amount, mode |-> d.mode, roster |-> d.roster, split |-> split]
      OBVIOUS
    <3>3. Files(w)
      <4>1. Valid(d.amount, d.mode, split)
        BY <1>1, <3>1, SubmitsValid
      <4> QED  BY <3>2, <4>1 DEF Files
    <3>4. task' = [task EXCEPT ![t] = w]
      BY <1>1, <3>1, <3>2 DEF Claim
    <3> QED  BY <3>3, <3>4
  <2>4. task'[t] = w /\ DOMAIN task' = Task /\ \A x \in Task \ {t} : task'[x] = task[x]
    BY <2>3 DEF IInv, Typed
  <2>5. fsm' = fsm /\ filed' = filed
    BY DEF Submit
  <2>6. Typed'
    BY <2>2, <2>3, <2>4, <2>5 DEF IInv, Typed, Works, Files, Asks
  <2>7. SelectedInRoster'
    BY <2>2 DEF IInv, SelectedInRoster, Everyone, RosterOf
  <2>8. \A x \in Task : ~Owns(x)
    BY <1>1 DEF IInv, Once
  <2>9. \A x \in Task : Owns(x)' => x = t
    BY <2>4, <2>8 DEF Owns
  <2>10. filed = 0
    BY DEF IInv, Once
  <2>11. Once'
    BY <2>2, <2>5, <2>9, <2>10 DEF Once
  <2> QED  BY <2>6, <2>7, <2>11 DEF IInv
<1>2. CASE draft' = d /\ UNCHANGED task
  <2>1. UNCHANGED <<fsm, filed, task>>
    BY <1>2 DEF Submit
  <2>2. Typed'
    BY <1>2, <2>1 DEF IInv, Typed, Works, Files, Asks
  <2>3. SelectedInRoster'
    BY <1>2 DEF IInv, SelectedInRoster, Everyone, RosterOf
  <2>4. Once'
    BY <1>2, <2>1 DEF IInv, Once, Owns
  <2> QED  BY <2>2, <2>3, <2>4 DEF IInv
<1> QED  BY <1>1, <1>2 DEF Submit

-----------------------------------------------------------------------------
(* The handlers that only change the draft, the screen or their own call.  *)

LEMMA ReplyKeeps ==
  ASSUME IInv, NEW t \in Task, Reply(t)
  PROVE  IInv'
<1> USE DEF IInv
<1>0. draft \in Draft /\ fsm \in State /\ UNCHANGED filed /\ Works(Idle)
  BY DEF Typed, Reply, ReplyAmount, ReplyBadAmount, ReplyDescription, ReplyShare, ReplyBadShare, Works
<1>1. CASE ReplyAmount(t)
  <2>1. PICK amount \in Cents, currency \in {ScopeOf(draft), "pinned"} :
          LET d == [draft EXCEPT !.amount = amount, !.currency = currency] IN
          /\ draft' = d
          /\ IF d.roster = "none"
               THEN /\ task' = [task EXCEPT ![t] = [at |-> "loading", scope |-> ScopeOf(d), open |-> TRUE]]
                    /\ UNCHANGED fsm
               ELSE /\ task' = [task EXCEPT ![t] = Dropping(Idle)]
                    /\ fsm' = "participants"
    BY <1>1 DEF ReplyAmount
  <2>2. PICK d : d = [draft EXCEPT !.amount = amount, !.currency = currency]
    OBVIOUS
  <2>3. /\ d \in Draft /\ d.live = draft.live /\ d.submitting = draft.submitting
        /\ d.selected = draft.selected /\ d.roster = draft.roster
    BY <1>0, <2>2 DEF Draft, ScopeOf, Scope
  <2>4. /\ draft' = d /\ fsm' \in State
        /\ \/ task' = [task EXCEPT ![t] = [at |-> "loading", scope |-> ScopeOf(d), open |-> TRUE]]
           \/ task' = [task EXCEPT ![t] = Dropping(Idle)]
    BY <1>0, <2>1, <2>2 DEF State, Screen
  <2>5. Works([at |-> "loading", scope |-> ScopeOf(d), open |-> TRUE]) /\ Works(Dropping(Idle))
    BY DEF Works, ScopeOf, Scope, Dropping
  <2>6. SelectedInRoster'
    BY <2>3, <2>4 DEF SelectedInRoster, Everyone, RosterOf
  <2> QED  BY <1>0, <2>3, <2>4, <2>5, <2>6, WorkKeeps
<1>2. CASE ReplyBadAmount(t)
  <2>1. Works(Asking(Ask("amount"), "nothing"))
    BY AskTyped DEF Asking, Works, Asks
  <2>2. task' = [task EXCEPT ![t] = Asking(Ask("amount"), "nothing")] /\ UNCHANGED <<fsm, draft>>
    BY <1>2 DEF ReplyBadAmount
  <2>3. SelectedInRoster'
    BY <2>2 DEF SelectedInRoster, Everyone, RosterOf
  <2> QED  BY <1>0, <2>1, <2>2, <2>3, WorkKeeps
<1>3. CASE ReplyDescription(t)
  <2>1. Works(Dropping(Idle))
    BY DEF Works, Dropping
  <2>2. task' = [task EXCEPT ![t] = Dropping(Idle)] /\ UNCHANGED draft /\ fsm' \in State
    BY <1>3 DEF ReplyDescription, State, Screen
  <2>3. SelectedInRoster'
    BY <2>2 DEF SelectedInRoster, Everyone, RosterOf
  <2> QED  BY <1>0, <2>1, <2>2, <2>3, WorkKeeps
<1>4. CASE ReplyShare(t)
  <2>1. PICK n \in Number :
          draft' = [draft EXCEPT !.shares = [i \in DOMAIN draft.shares \cup {draft.pending} |->
                                               IF i = draft.pending THEN n ELSE draft.shares[i]],
                                 !.pending = 0]
    BY <1>4 DEF ReplyShare
  <2>2. PICK I \in SUBSET Index : draft.shares \in [I -> Number]
    BY <1>0 DEF Draft, Holding
  <2>3. draft.pending \in Index
    BY <1>0, <1>4 DEF ReplyShare, Draft
  <2>4. PICK f : f = [i \in DOMAIN draft.shares \cup {draft.pending} |->
                         IF i = draft.pending THEN n ELSE draft.shares[i]]
    OBVIOUS
  <2>5. f \in [I \cup {draft.pending} -> Number]
    BY <2>2, <2>4
  <2>6. f \in Holding
    BY <2>3, <2>5 DEF Holding
  <2>7. /\ draft' \in Draft /\ draft'.live = draft.live /\ draft'.submitting = draft.submitting
        /\ draft'.selected = draft.selected /\ draft'.roster = draft.roster
    BY <1>0, <2>1, <2>4, <2>6 DEF Draft
  <2>8. Works(Dropping(Idle)) /\ task' = [task EXCEPT ![t] = Dropping(Idle)] /\ fsm' = fsm
    BY <1>4 DEF Works, Dropping, ReplyShare
  <2>9. SelectedInRoster'
    BY <2>7 DEF SelectedInRoster, Everyone, RosterOf
  <2> QED  BY <1>0, <2>7, <2>8, <2>9, WorkKeeps
<1>5. CASE ReplyBadShare(t)
  <2>1. PICK p : p = [draft.prompt EXCEPT !.mode = draft.mode]
    OBVIOUS
  <2>2. p \in Prompt
    BY <1>0, <2>1 DEF Draft, Prompt
  <2>3. Works(Dropping(Asking(p, "nothing")))
    BY <2>2 DEF Works, Asks, Dropping, Asking
  <2>4. task' = [task EXCEPT ![t] = Dropping(Asking(p, "nothing"))] /\ UNCHANGED <<fsm, draft>>
    BY <1>5, <2>1 DEF ReplyBadShare
  <2>5. SelectedInRoster'
    BY <2>4 DEF SelectedInRoster, Everyone, RosterOf
  <2> QED  BY <1>0, <2>3, <2>4, <2>5, WorkKeeps
<1> QED  BY <1>1, <1>2, <1>3, <1>4, <1>5 DEF Reply

\* A handler goes to a screen of the draft it has left behind.
LEMMA GoToKeeps ==
  ASSUME IInv, NEW t \in Task, NEW screen \in Screen, GoTo(t, screen),
         draft' \in Draft, draft'.live = draft.live, draft'.submitting = draft.submitting,
         SelectedInRoster'
  PROVE  IInv'
<1>1. PICK w : w = Repaint(draft', screen)
  OBVIOUS
<1>2. task' = [task EXCEPT ![t] = w] /\ Works(w)
  BY <1>1, PaintTyped DEF GoTo
<1>3. fsm' \in State /\ filed' = filed
  BY DEF GoTo, State
<1> QED  BY <1>2, <1>3, WorkKeeps

LEMMA EditKeeps ==
  ASSUME IInv, NEW t \in Task, NEW selected \in SUBSET Everyone(draft), EditSelection(t, selected)
  PROVE  IInv'
<1>1. draft \in Draft
  BY DEF IInv, Typed
<1>2. selected \in SUBSET Index
  BY <1>1, EveryoneIndexed DEF Draft
<1>3. draft' = [draft EXCEPT !.selected = selected]
  BY DEF EditSelection
<1>4. /\ draft' \in Draft /\ draft'.live = draft.live /\ draft'.submitting = draft.submitting
      /\ draft'.selected = selected /\ draft'.roster = draft.roster
  BY <1>1, <1>2, <1>3 DEF Draft
<1>5. SelectedInRoster'
  BY <1>4 DEF SelectedInRoster, Everyone, RosterOf
<1>6. GoTo(t, "participants")
  BY DEF EditSelection, GoTo
<1>7. "participants" \in Screen
  BY DEF Screen
<1> QED  BY <1>4, <1>5, <1>6, <1>7, GoToKeeps

LEMMA TapKeeps ==
  ASSUME IInv, NEW t \in Task, Tap(t)
  PROVE  IInv'
<1>0. draft \in Draft /\ fsm \in State
  BY DEF IInv, Typed
<1>1. CASE Cancel(t)
  BY <1>1, CancelKeeps DEF Cancel
<1>2. CASE PromptAgain(t)
  <2>1. PICK about \in {"amount", "description"} :
          task' = [task EXCEPT ![t] = Asking(Ask(about), "state")]
    BY <1>2 DEF PromptAgain
  <2>2. Works(Asking(Ask(about), "state"))
    BY AskTyped DEF Asking, Works, Asks
  <2>3. UNCHANGED <<fsm, draft, filed>>
    BY <1>2 DEF PromptAgain
  <2>4. SelectedInRoster'
    BY <2>3 DEF IInv, SelectedInRoster, Everyone, RosterOf
  <2> QED  BY <1>0, <2>1, <2>2, <2>3, <2>4, WorkKeeps
<1>3. CASE ToggleGeneral(t)
  <2>1. PICK force, scope :
          /\ force = ~draft.force
          /\ scope = ScopeOf([draft EXCEPT !.force = force])
          /\ draft' = [draft EXCEPT !.force = force,
                                   !.currency = IF draft.currency = "pinned" THEN draft.currency ELSE scope]
          /\ task' = [task EXCEPT ![t] = [at |-> "loading", scope |-> scope, open |-> FALSE]]
          /\ UNCHANGED <<fsm, filed>>
    BY <1>3 DEF ToggleGeneral
  <2>2. force \in BOOLEAN /\ scope \in Scope
    BY <2>1 DEF ScopeOf, Scope
  <2>3. PICK c : c = IF draft.currency = "pinned" THEN draft.currency ELSE scope
    OBVIOUS
  <2>4. c \in Scope \cup {"none", "pinned"} /\ draft' = [draft EXCEPT !.force = force, !.currency = c]
    BY <2>1, <2>2, <2>3
  <2>5. /\ draft' \in Draft /\ draft'.live = draft.live /\ draft'.submitting = draft.submitting
        /\ draft'.selected = draft.selected /\ draft'.roster = draft.roster
    BY <1>0, <2>2, <2>4 DEF Draft
  <2>6. Works([at |-> "loading", scope |-> scope, open |-> FALSE])
    BY <2>2 DEF Works
  <2>7. SelectedInRoster'
    BY <2>5 DEF IInv, SelectedInRoster, Everyone, RosterOf
  <2> QED  BY <1>0, <2>1, <2>5, <2>6, <2>7, WorkKeeps
<1>4. CASE SelectAll(t)
  BY <1>4, EditKeeps DEF SelectAll
<1>5. CASE ClearSelection(t)
  BY <1>5, EditKeeps DEF ClearSelection
<1>6. CASE ToggleParticipant(t)
  <2>1. PICK i \in Everyone(draft) :
          EditSelection(t, IF i \in draft.selected THEN draft.selected \ {i}
                                                  ELSE draft.selected \cup {i})
    BY <1>6 DEF ToggleParticipant
  <2>2. PICK selected : selected = IF i \in draft.selected THEN draft.selected \ {i}
                                                           ELSE draft.selected \cup {i}
    OBVIOUS
  <2>3. selected \in SUBSET Everyone(draft)
    BY <2>2 DEF IInv, SelectedInRoster
  <2> QED  BY <2>1, <2>2, <2>3, EditKeeps
<1>7. CASE ParticipantsDone(t)
  <2>1. UNCHANGED draft /\ GoTo(t, "split_mode") /\ "split_mode" \in Screen
    BY <1>7 DEF ParticipantsDone, Screen
  <2>2. SelectedInRoster'
    BY <2>1 DEF IInv, SelectedInRoster, Everyone, RosterOf
  <2> QED  BY <1>0, <2>1, <2>2, GoToKeeps
<1>8. CASE Back(t)
  <2>1. PICK screen \in Screen : GoTo(t, screen)
    BY <1>8 DEF Back, Screen
  <2>2. UNCHANGED draft
    BY <1>8 DEF Back
  <2>3. SelectedInRoster'
    BY <2>2 DEF IInv, SelectedInRoster, Everyone, RosterOf
  <2> QED  BY <1>0, <2>1, <2>2, <2>3, GoToKeeps
<1>9. CASE SetMode(t)
  <2>1. PICK mode \in Mode : draft' = [draft EXCEPT !.mode = mode, !.shares = << >>]
    BY <1>9 DEF SetMode
  <2>2. PICK none : none = << >> /\ none \in Holding
    BY NoShares
  <2>3. draft' = [draft EXCEPT !.mode = mode, !.shares = none]
    BY <2>1, <2>2
  <2>4. /\ draft' \in Draft /\ draft'.live = draft.live /\ draft'.submitting = draft.submitting
        /\ draft'.selected = draft.selected /\ draft'.roster = draft.roster
    BY <1>0, <2>2, <2>3 DEF Draft
  <2>5. GoTo(t, "share_entry") /\ "share_entry" \in Screen
    BY <1>9 DEF SetMode, Screen
  <2>6. SelectedInRoster'
    BY <2>4 DEF IInv, SelectedInRoster, Everyone, RosterOf
  <2> QED  BY <2>4, <2>5, <2>6, GoToKeeps
<1>10. CASE PromptShare(t)
  <2>1. PICK i \in draft.selected :
          /\ OnFace(t, "share_entry", "s") \/ OnFace(t, "share_ready", "s")
          /\ task' = [task EXCEPT ![t] = Asking([about |-> "share", mode |-> draft.mode, idx |-> i,
                                                 of |-> draft.roster], "pending")]
    BY <1>10 DEF PromptShare
  <2>2. PICK p : p = [about |-> "share", mode |-> draft.mode, idx |-> i, of |-> draft.roster]
    OBVIOUS
  <2>3. i \in Index
    BY <1>0 DEF Draft
  <2>4. p \in Prompt /\ p.idx \in Index
    <3>1. i \in 0..Cardinality(Person)
      BY <2>3, WizardPeople, FS_CardinalityType DEF Index
    <3> QED  BY <1>0, <2>2, <2>3, <3>1 DEF Draft, Prompt
  <2>5. Works(Asking(p, "pending"))
    BY <2>4 DEF Asking, Works, Asks
  <2>6. UNCHANGED <<fsm, draft, filed>>
    BY <1>10 DEF PromptShare
  <2>7. SelectedInRoster'
    BY <2>6 DEF IInv, SelectedInRoster, Everyone, RosterOf
  <2> QED  BY <1>0, <2>1, <2>2, <2>5, <2>6, <2>7, WorkKeeps
<1>11. CASE AddEqual(t)
  <2>1. PICK d, none : none = << >> /\ d = [draft EXCEPT !.mode = "equal", !.shares = none] /\ none \in Holding
    BY NoShares
  <2>2. /\ d \in Draft /\ d.live = draft.live /\ d.submitting = draft.submitting
        /\ d.selected = draft.selected /\ d.roster = draft.roster
    BY <1>0, <2>1 DEF Draft
  <2>3. task[t] = Idle /\ draft.live /\ Submit(t, d)
    BY <1>11, <2>1 DEF AddEqual, Tapped, OnFace
  <2> QED  BY <2>2, <2>3, SubmitKeeps
<1>12. CASE Confirm(t)
  <2>1. task[t] = Idle /\ draft.live /\ Submit(t, draft)
    BY <1>12 DEF Confirm, Tapped, OnFace
  <2>2. PICK d : d = draft
    OBVIOUS
  <2> QED  BY <1>0, <2>1, <2>2, SubmitKeeps
<1> QED
  BY <1>1, <1>2, <1>3, <1>4, <1>5, <1>6, <1>7, <1>8, <1>9, <1>10, <1>11, <1>12 DEF Tap

LEMMA ResumeKeeps ==
  ASSUME IInv, NEW t \in Task, Resume(t)
  PROVE  IInv'
<1>0. draft \in Draft /\ fsm \in State /\ (Works(task[t]) \/ Files(task[t])) /\ Works(Idle)
  BY DEF IInv, Typed, Works
<1>1. CASE Asked(t)
  <2>1. task[t].at = "asking" /\ UNCHANGED filed /\ task' = [task EXCEPT ![t] = Idle]
    BY <1>1 DEF Asked
  <2>2. Asks(task[t])
    BY <1>0, <2>1 DEF Works, Files, Idle
  <2>3. PICK n : n = IF task[t].then = "pending" THEN task[t].prompt.idx ELSE draft.pending
    OBVIOUS
  <2>4. n \in Index \cup {0} /\ task[t].prompt \in Prompt
    BY <1>0, <2>2, <2>3 DEF Asks, Draft
  <2>5. draft' = [draft EXCEPT !.prompt = task[t].prompt, !.pending = n]
    BY <1>1, <2>3 DEF Asked
  <2>6. /\ draft' \in Draft /\ draft'.live = draft.live /\ draft'.submitting = draft.submitting
        /\ draft'.selected = draft.selected /\ draft'.roster = draft.roster
    BY <1>0, <2>4, <2>5 DEF Draft
  <2>7. fsm' \in State
    BY <1>0, <1>1, <2>2 DEF Asked, Asks, State
  <2>8. SelectedInRoster'
    BY <2>6 DEF IInv, SelectedInRoster, Everyone, RosterOf
  <2> QED  BY <1>0, <2>1, <2>6, <2>7, <2>8, WorkKeeps
<1>2. CASE Loaded(t)
  <2>1. task[t].at = "loading" /\ UNCHANGED filed /\ fsm' \in State
    BY <1>2 DEF Loaded, State, Screen
  <2>2. task[t].scope \in Scope
    BY <1>0, <2>1 DEF Works, Files, Idle, Asks
  <2>3. PICK p, d : /\ p = IF task[t].open THEN NoPrompt ELSE draft.prompt
                    /\ d = [draft EXCEPT !.roster = task[t].scope,
                                         !.selected = DOMAIN Members[task[t].scope], !.prompt = p]
    OBVIOUS
  <2>4. p \in Prompt
    BY <1>0, <2>3, NoDraftTyped DEF Draft, NoDraft
  <2>5. DOMAIN Members[task[t].scope] \in SUBSET Index
    BY <2>2, PlacesAreIndices
  <2>6. /\ d \in Draft /\ d.live = draft.live /\ d.submitting = draft.submitting
        /\ d.selected = DOMAIN Members[task[t].scope] /\ d.roster = task[t].scope
    BY <1>0, <2>2, <2>3, <2>4, <2>5 DEF Draft
  <2>7. draft' = d
    BY <1>2, <2>3 DEF Loaded
  <2>8. PICK w : task' = [task EXCEPT ![t] = w] /\ Works(w)
    BY <1>2, PaintTyped DEF Loaded
  <2>9. SelectedInRoster'
    <3>1. task[t].scope # "none"
      BY <2>2 DEF Scope
    <3> QED  BY <2>6, <2>7, <3>1 DEF SelectedInRoster, Everyone, RosterOf
  <2> QED  BY <2>1, <2>6, <2>7, <2>8, <2>9, WorkKeeps
<1>3. CASE Dropped(t)
  <2>1. task[t].at = "dropping" /\ UNCHANGED <<fsm, draft, filed>>
    BY <1>3 DEF Dropped
  <2>2. DOMAIN task[t] = {"at", "next"} /\ (task[t].next = Idle \/ Asks(task[t].next))
    BY <1>0, <2>1 DEF Works, Files, Idle, Asks
  <2>3. PICK w : task' = [task EXCEPT ![t] = w] /\ Works(w)
    <3>1. CASE draft.prompt = NoPrompt
      BY <1>3, <2>2, <3>1, PaintTyped DEF Dropped, GoOn, Works
    <3>2. CASE draft.prompt # NoPrompt
      <4>1. PICK v, w : v = task[t] /\ w = [v EXCEPT !.at = "clearing"]
        OBVIOUS
      <4>2. DOMAIN w = {"at", "next"} /\ w.at = "clearing" /\ w.next = v.next
        BY <2>2, <4>1
      <4>3. Works(w)
        BY <2>2, <4>1, <4>2 DEF Works
      <4>4. task' = [task EXCEPT ![t] = w]
        BY <1>3, <3>2, <4>1 DEF Dropped
      <4> QED  BY <4>3, <4>4
    <3> QED  BY <3>1, <3>2
  <2>4. SelectedInRoster'
    BY <2>1 DEF IInv, SelectedInRoster, Everyone, RosterOf
  <2> QED  BY <1>0, <2>1, <2>3, <2>4, WorkKeeps
<1>4. CASE Cleared(t)
  <2>1. task[t].at = "clearing" /\ UNCHANGED <<fsm, filed>> /\ draft' = [draft EXCEPT !.prompt = NoPrompt]
    BY <1>4 DEF Cleared
  <2>2. task[t].next = Idle \/ Asks(task[t].next)
    BY <1>0, <2>1 DEF Works, Files, Idle, Asks
  <2>3. NoPrompt \in Prompt
    BY NoDraftTyped DEF Draft, NoDraft
  <2>4. /\ draft' \in Draft /\ draft'.live = draft.live /\ draft'.submitting = draft.submitting
        /\ draft'.selected = draft.selected /\ draft'.roster = draft.roster
    BY <1>0, <2>1, <2>3 DEF Draft
  <2>5. PICK w : task' = [task EXCEPT ![t] = w] /\ Works(w)
    BY <1>4, <2>2, PaintTyped DEF Cleared, GoOn, Works
  <2>6. SelectedInRoster'
    BY <2>4 DEF IInv, SelectedInRoster, Everyone, RosterOf
  <2> QED  BY <1>0, <2>1, <2>4, <2>5, <2>6, WorkKeeps
<1>5. CASE Painted(t)
  <2>1. /\ task[t].at = "painting" /\ UNCHANGED <<fsm, filed>>
        /\ draft' = [draft EXCEPT !.anchor = task[t].shows] /\ task' = [task EXCEPT ![t] = Idle]
    BY <1>5 DEF Painted
  <2>2. task[t].shows \in Face
    BY <1>0, <2>1 DEF Works, Files, Idle, Asks
  <2>3. /\ draft' \in Draft /\ draft'.live = draft.live /\ draft'.submitting = draft.submitting
        /\ draft'.selected = draft.selected /\ draft'.roster = draft.roster
    BY <1>0, <2>1, <2>2 DEF Draft
  <2>4. SelectedInRoster'
    BY <2>3 DEF IInv, SelectedInRoster, Everyone, RosterOf
  <2> QED  BY <1>0, <2>1, <2>3, <2>4, WorkKeeps
<1>6. CASE Resent(t)
  <2>1. /\ task[t].at = "resending" /\ UNCHANGED <<fsm, filed>>
        /\ draft' = [draft EXCEPT !.anchor = task[t].shows] /\ task' = [Orphaned EXCEPT ![t] = Idle]
    BY <1>6 DEF Resent
  <2>2. task[t].shows \in Face
    BY <1>0, <2>1 DEF Works, Files, Idle, Asks
  <2>3. /\ draft' \in Draft /\ draft'.live = draft.live /\ draft'.submitting = draft.submitting
        /\ draft'.selected = draft.selected /\ draft'.roster = draft.roster
    BY <1>0, <2>1, <2>2 DEF Draft
  <2>4. DOMAIN task' = Task /\ \A x \in Task : task'[x] = Idle \/ task'[x] = task[x]
    BY <2>1 DEF Orphaned
  <2>5. Typed'
    <3>1. \A x \in Task : Works(task'[x]) \/ Files(task'[x])
      BY <1>0, <2>4 DEF IInv, Typed
    <3> QED  BY <2>1, <2>3, <2>4, <3>1 DEF IInv, Typed, Works, Files, Asks
  <2>6. SelectedInRoster'
    BY <2>3 DEF IInv, SelectedInRoster, Everyone, RosterOf
  <2>7. \A x \in Task : Owns(x)' => Owns(x)
    BY <2>4 DEF Owns, Idle
  <2>8. Once'
    BY <2>1, <2>3, <2>7 DEF IInv, Once
  <2> QED  BY <2>5, <2>6, <2>8 DEF IInv
<1>7. CASE Added(t)
  BY <1>7, AddedKeeps
<1>8. CASE Raise(t)
  <2>1. task' = [task EXCEPT ![t] = Idle] /\ UNCHANGED <<fsm, draft, filed>>
    BY <1>8 DEF Raise
  <2>2. SelectedInRoster'
    BY <2>1 DEF IInv, SelectedInRoster, Everyone, RosterOf
  <2> QED  BY <1>0, <2>1, <2>2, WorkKeeps
<1> QED  BY <1>1, <1>2, <1>3, <1>4, <1>5, <1>6, <1>7, <1>8 DEF Resume

LEMMA StepInv == IInv /\ [Next]_vars => IInv'
<1> SUFFICES ASSUME IInv, [Next]_vars PROVE IInv'
  OBVIOUS
<1>1. CASE UNCHANGED vars
  BY <1>1 DEF vars, IInv, Typed, Works, Files, Asks, SelectedInRoster, Everyone, RosterOf, Once, Owns
<1>2. ASSUME NEW t \in Task, Start(t) PROVE IInv'
  BY <1>2, StartKeeps
<1>3. ASSUME NEW t \in Task, CancelCommand(t) PROVE IInv'
  BY <1>3, CancelKeeps DEF CancelCommand
<1>4. ASSUME NEW t \in Task, Reply(t) PROVE IInv'
  BY <1>4, ReplyKeeps
<1>5. ASSUME NEW t \in Task, Tap(t) PROVE IInv'
  BY <1>5, TapKeeps
<1>6. ASSUME NEW t \in Task, Resume(t) PROVE IInv'
  BY <1>6, ResumeKeeps
<1> QED  BY <1>1, <1>2, <1>3, <1>4, <1>5, <1>6 DEF Next, Act

\* The draft and what every handler carries keep their types, people selected are
\* on the roster, and the slot of a draft has one owner.
THEOREM InvHolds == Spec => []IInv
<1>1. Init => IInv  BY InitInv
<1>2. IInv /\ [Next]_vars => IInv'  BY StepInv
<1> QED  BY <1>1, <1>2, PTL DEF Spec

\* A prompt, a share or a screen that comes late is still one the wizard knows.
THEOREM TypeCorrect == Spec => []TypeOK
<1>1. IInv => TypeOK
  <2> SUFFICES ASSUME IInv PROVE TypeOK
    OBVIOUS
  <2>1. draft \in Draft /\ fsm \in State /\ filed \in Nat
    BY DEF IInv, Typed
  <2>2. DOMAIN draft.shares \subseteq Index /\ \A i \in DOMAIN draft.shares : draft.shares[i] \in Number
    BY <2>1 DEF Draft, Holding
  <2>3. \A b \in {"live", "event", "force", "submitting"} : draft[b] \in BOOLEAN
    BY <2>1 DEF Draft
  <2>4. \A t \in Task : task[t].at \in {"idle", "asking", "loading", "dropping", "clearing",
                                         "resending", "painting", "adding"}
    BY DEF IInv, Typed, Works, Files, Asks, Idle
  <2> QED  BY <2>1, <2>2, <2>3, <2>4 DEF TypeOK, Draft
<1> QED  BY <1>1, InvHolds, PTL

\* Whichever reloads, toggles and taps race, a selected place is on the roster the
\* draft holds: no handler can raise an IndexError.
THEOREM SelectedInRosterHolds == Spec => []SelectedInRoster
<1>1. IInv => SelectedInRoster  BY DEF IInv
<1> QED  BY <1>1, InvHolds, PTL

\* However often Add and Confirm are tapped, and whatever is cancelled or restarted
\* meanwhile, one draft files at most one expense.
THEOREM OneExpensePerDraftHolds == Spec => []OneExpensePerDraft
<1>1. IInv => OneExpensePerDraft
  <2> SUFFICES ASSUME IInv PROVE OneExpensePerDraft
    OBVIOUS
  <2> DEFINE Owners == {t \in Adding : task[t].own}
  <2>1. \A t \in Owners : t \in Task /\ Owns(t)
    BY DEF Adding, Owns
  <2>2. filed \in Nat
    BY DEF IInv, Typed
  <2>3. CASE Owners = {}
    <3>1. Cardinality(Owners) = 0
      BY <2>3, FS_EmptySet
    <3>2. filed <= 1
      BY <2>2 DEF IInv, Once
    <3> HIDE DEF Owners
    <3>3. filed + Cardinality(Owners) <= 1
      BY <2>2, <3>1, <3>2
    <3> QED  BY <3>3 DEF OneExpensePerDraft, Owners
  <2>4. CASE Owners # {}
    <3>1. PICK t \in Owners : Owners = {t}
      BY <2>1, <2>4 DEF IInv, Once
    <3>2. filed = 0
      BY <2>1, <3>1 DEF IInv, Once
    <3>3. Cardinality(Owners) = 1
      BY <3>1, FS_Singleton
    <3> HIDE DEF Owners
    <3>4. filed + Cardinality(Owners) <= 1
      BY <3>2, <3>3
    <3> QED  BY <3>4 DEF OneExpensePerDraft, Owners
  <2> QED  BY <2>3, <2>4
<1> QED  BY <1>1, InvHolds, PTL

\* Although amount, selection and mode may change after the shares were entered, and
\* whichever handlers run meanwhile, compute_shares rejects nothing the wizard submits.
THEOREM ServiceAcceptsHolds == Spec => []ServiceAccepts
<1>1. IInv => ServiceAccepts
  BY WorksOwnsNot DEF IInv, Typed, Files, ServiceAccepts, Adding
<1> QED  BY <1>1, InvHolds, PTL
=============================================================================
