# countbeans: specification and proofs

countbeans is a Telegram bot that keeps shared-expense ledgers for group chats: Python, aiogram, SQLAlchemy on
PostgreSQL. This directory holds TLA+ models of its core, TLC runs that check them on small instances, and
TLAPS proofs about them for every instance. `PROJECT.json` maps each definition to the source lines it models.

Paths below are relative to `src/src/countbeans/`.

## 1. How the program runs

Telegram updates are polled and each is handled by an asyncio task of its own (`bot/server.py`), so handlers of
one chat overlap at every `await`. A handler runs inside one unit of work, that is one database session and one
READ COMMITTED transaction, committed when the handler returns and rolled back when it raises
(`bot/middleware/transactional.py`, `services/uow.py`). A handler that replies with an error still *returns*: it
commits. Three things order the handlers:

- `groups.upsert` (`services/repositories.py:544`), the first statement of nearly every handler. It is an
  `INSERT ... ON CONFLICT DO UPDATE`, which takes the group's row lock and keeps it until the transaction ends.
  Handlers of one group queue there. The wizard's Submit and `record_member_leave` do not make the call.
- Unique indexes on `users`, which make a writer wait for another transaction's uncommitted row of the same key.
- For the wizard, the FSM storage in the process's memory: between two awaits a handler runs alone.

Each *statement* sees what is committed when it runs. Two statements of a handler can see different databases,
and an ORM object loaded before the lock is not refreshed after it.

## 2. Inventory

| component | state | operations | interacts with | hard behaviour | what makes it correct | modules |
|---|---|---|---|---|---|---|
| Transactions, unit of work (`services/uow.py`, `bot/middleware/transactional.py`) | session, transaction, row locks | begin, commit, rollback | every handler | interleaved transactions; errors after writes | a lock is let go on every path; writes appear at once or never | EventScope, LedgerTx, Roster |
| Events (`bot/handlers/event.py`, `services/events.py`) | `events.status`, `groups.active_event_id`, `event_members` | new, pause, resume, close (typed and as buttons), roster edits | entries are filed under the active event | racing commands, a session copy of the pointer older than the lock, buttons that name members by their place in a list | one open event; the pointer names it; an edit's receipt is true of the roster it edited | EventLife, EventScope; RosterBook, EventRoster |
| Expense splits (`services/add_expense.py`) | none | `compute_shares`, `apportion` | used by /addexpense and the wizard | rounding, zero weights, more people than cents | shares add up to the amount, fairly and deterministically | Split, Apportionment |
| Balances and transfers (`services/balance.py`, `BalanceRepository`) | none stored | four SELECTs, greedy matching | settle-up, /balance | four snapshots in one sum | zero-sum; a transfer overpays nobody | LedgerTx, Transfers, Greedy |
| Ledger writes (`services/settlement.py`, `services/void_expense.py`) | `expenses`, `expense_shares`, `settlements`, `voided_at` | add_expense, settle_up, settle_all, void_entry | balances | double taps, void against settle-up | append-only, voided once, nobody flipped | LedgerTx |
| Settle-up handlers (`bot/handlers/settleup.py`) | buttons | typed form, `st:` taps, settle all | ledger, events | stale buttons; balances read twice in one handler | amount and scope re-derived at the tap, and the amount is all that is owed | LedgerTx, EventScope; pickers not |
| Void handlers (`bot/handlers/void.py`) | buttons | preview, `vd:` taps | ledger | two voiders | as above | LedgerTx; preview not |
| Inline /addexpense (`bot/handlers/addexpense.py`) | none | parse, resolve, file | users, events, ledger | a rejected command commits its placeholders | filed under the right scope | EventScope, EventRoster, LedgerTx, Roster |
| Expense wizard (`bot/handlers/addexpense_wizard/`) | FSM state and draft; an anchor message, a ForceReply prompt | replies, some fourteen buttons, Submit | ledger, rosters, events | handlers of one draft interleave at each Telegram call; late edits; late prompts | one expense per draft, in one scope, that the service accepts | Wizard, EventScope |
| Users and membership (`UserRepository`, `GroupMemberRepository`, `services/onboard.py`, `services/membership.py`, `bot/handlers/join.py`, `start.py`) | `users` with placeholders, `group_members` | upsert, claim, mention, join, leave | every handler | several groups write one table; renamed handles; a leave racing a rejoin | one row per account, one active membership, claims only inside the group | Roster |
| Admin gate, bot membership (`bot/middleware/admin_gate.py`, `bot/handlers/membership.py`) | `groups.bot_is_admin` | gate, self-heal, my_chat_member | every message | self-heal overwrites a newer status; updates overtake each other; a failed reply rolls the flag back | the flag says what Telegram says; a promoted bot serves again | AdminGate |
| Group settings (`currency.py`, `simplify.py`) | two columns | set | balances, wizard | a stale session copy | single assignments under the lock | the toggle appears in LedgerTx as either value |
| Statements, group info, /balance views | none; a statement's void buttons lead to a `vd:` tap | read, format | ledger; the tap goes to the void handlers | they write no entry; the upsert of the reader is Roster's | | not modelled; the void itself in LedgerTx |
| Parsing, formatting (`bot/utils/`) | none | text to commands and back | handlers | none (pure) | | not modelled: commands are the models' inputs |
| Server, configuration, logging | none | wiring | | | | not modelled |

`PROJECT.json` lists every hazard at its line, with the property that would catch it or the reason none does.

## 3. Modules

| module | models | composed of |
|---|---|---|
| `EventLife` | abstract: the event commands, each one atomic step | |
| `EventScope` | the handlers that move events or file entries: gate, lock, lookup, write, commit | refines `EventLife` |
| `Split` | closed form of `compute_shares` | |
| `Apportionment` | the loops of `compute_shares`, an iteration per step | computes `Split` |
| `Transfers` | closed form of the suggested transfers | |
| `Greedy` | the two-pointer loop of `_greedy_transfers` | computes `Transfers` |
| `LedgerTx` | ledger rows and the transactions that read and write them | uses `Split`, `Transfers` |
| `Wizard` | one wizard's draft and its concurrent handlers | uses `Split` |
| `Roster` | users, placeholders, memberships in several groups | |
| `RosterBook` | abstract: the roster commands and event expenses, each one atomic step with its receipt | |
| `EventRoster` | the handlers that edit rosters: the editor's taps, typed edits, expenses | refines `RosterBook` |
| `AdminGate` | the stored copy of the bot's rights and the handlers that write it | |
| `*_proofs` | theorems about the module of that name; `Split_proofs` holds the lemmas on sums and on both closed forms, `Money_proofs` the theorems about the two loops | |
| `MC*` | definitions for TLC | |

The closed forms are what composes the pieces. `LedgerTx` files expenses with `Shares` (Split) and settles along
`Owed` (Transfers); the code's loops compute just these functions, which runs show on small instances and theorems
for all.

### EventScope
`status` and `active` are the committed rows, `view[t]` the copy of the group row in handler t's session,
`found[t]` its result of `get_open`, `todo[t]` its uncommitted write. `Receive` is the admin gate: for a message it
loads the group row without a lock. `Acquire` is `groups.upsert`. SQLAlchemy's `RETURNING` does not refresh a row
the session already holds, so a message handler keeps the older copy while a button handler, which has no gate,
gets a fresh one. The four commands follow `event.py` and `services/events.py`, `FileEntry` /addexpense and
/settleup, `StartDraft` and `SubmitDraft` the wizard with the event stored in its draft. `Commit` and `Abort` are
the middleware. Left out: the group row's creation; the partial unique index on open events, so that `OneOpen`
shows the service does not rely on it; the event's roster, which is EventRoster; the gate's own write, which is
AdminGate.

### Apportionment, Split
`apportion` step by step: `AddWeight`, `TakeFloor`, `SortRemainders`, `GiveCent`. Participants are numbered in
id order. `WithinACent` and `Monotone` say what "fair" means here, `ClosedForm` that the result is Split's `Shares`
and that exactly the splits its `Valid` excludes are rejected.

### Greedy, Transfers
`Match` is one pass of the `while`. Every balance map is an input, those that do not sum to zero included, since
the torn read below can produce one. `Transfers` lays the debts and credits end to end on two lines; a debtor owes
a creditor the overlap of their intervals (`Lower` and `Upper` are an interval's ends). `MatchesTransfers` says that
the loop ends with just these transfers.

### LedgerTx
`ledger` is the committed rows of one scope and currency. `ReadSum` is one of the four SELECTs of
`compute_for_group` with the snapshot of its moment; `SettleUp` and `SettleAll` decide on the sum of the four.
A tap, or /settleup without an amount, reads twice: `LookUp` keeps the suggested amount in `due[t]` and starts the
SELECTs again, and `PayDue` is the `settle_up` that checks the amount against the second sum.
`FetchRow` and `VoidRow` are `void_entry` and its permission. `submit` is the wizard's write, which takes no lock.
`raced[t]` is a history variable: a Submit committed while t held the lock. The simplify toggle is a session copy
and may be stale, so either value can be used.

### Wizard
`draft` is the FSM data, `fsm` its state, `task[t]` the call a handler awaits and what it carries across.
Between two awaits a handler is one action; each awaited call is resumed by one of `Asked`, `Loaded`, `Dropped`,
`Cleared`, `Resent`, `Painted`, `Added`, or fails (`Raise`). A prompt is known by what it asks and the anchor by
its face: the screen it shows, and of shares whether it was painted with Confirm (`FaceOf`). A repaint may be late or
fail, so the face need not fit the draft: Confirm can be tapped on shares that add up no more, or on a draft that is
split equally again, and `Submit` checks everything anew. `Claim` sets `submitting`,
as `_submit` does before its first await. `filed` counts the expenses of the present draft (history).
`MCWizard` checks it at two paces: one handler at a time over every button, and two handlers interleaved over the
buttons that lead to a write (`Race`, an instance of the same module with fewer buttons).
Left out: pages of the roster, the text of the description, a failing commit after the reply (in LedgerTx that
is `GiveUp`).

### Roster
`users` and `members` are committed rows; a handler's own writes are in `tx[t].puts` and `tx[t].joins`.
`Enter` is `groups.upsert`; `FindCaller`, `FindPending`, `Refresh`, `Claim` and `Insert` are the statements of
`users.upsert`; `EnsureMember`, `FindMention`, `AddPlaceholder` those for members and mentions; `Leave` is
`record_member_leave`, which takes no group lock. `Put` flushes an INSERT or UPDATE: it waits while another
transaction's uncommitted row is in the way and cannot go on if a committed row has its key (the handler then
raises). `Rename` is Telegram's: a handle moves from one account to another while updates that carry the old one
are still in flight. A mention by tap (`text_mention`) is an upsert of somebody else and behaves as another
caller. Left out: names, replies, reads that only word a reply; event rosters, which are EventRoster's.

### EventRoster, RosterBook
`members`, `event`, `past` and `roster` are committed rows, `shown` the editor message with the buttons it carries.
A button holds a place in a list of members; `who`, `on` and `scope` of a tap remember what it showed (history).
`ReceiveTap` and the other receive actions are the updates, `Enter` is `groups.upsert`. The list is ordered by
username, of which many members have none: `Orders` is every order PostgreSQL may return, so that two reads need
not agree even when nobody left. `ToggleMember` reads the list and decides, `Repaint` reads it again, edits the
message and answers, and only `Commit` makes the edit visible. `Leave` is the one writer that takes no lock. The
book says what a group may rely on: every edit is applied to the roster as it is, and the receipt tells exactly
whom it added or removed. `said` is the receipt of the step just committed. The book has a step for an expense that
is rejected after its people were written (`Reject`) and for one filed under an event closed meanwhile (`Charge`),
since the code does both.
One editor message is modelled. A member of the roster who has left the group is not listed in it, as in the code
(`event.py:491`). Left out: names, wording, and how somebody mentioned comes to be a user, which is Roster's.

### AdminGate
`bot` is the bot's status at Telegram, `stream` the `my_chat_member` updates on their way, `flag` the committed
`bot_is_admin`. Updates are handed out in order and handled concurrently. `NoteRemoved`, `RecordStatus` and
`ClearFlag` are `on_my_chat_member`; `CheckFlag`, `AskTelegram` and `StoreAnswer` the gate's self-heal, in which the
answer is stored after a wait for the lock. `Raise` rolls back whatever the handler wrote, also when the message
it sends at the end is refused. `calm` is history: the flag's last writer met no other writer, and no status
update has failed since.

## 4. Runs

| run | instance | distinct states | what it shows |
|---|---|---|---|
| event_scope | 2 handlers, 2 events, all traffic, 1 entry; symmetric | 490 k | `OneOpen`, `ActiveIsOpen`, `LookupHolds`, `ButtonVerdict`, `TapFilesActive`, and the refinement `ImplementsLife` |
| event_live | 3 handlers, 1 event, no entries | 60 k | `HandlersFinish`: every handler that starts ends |
| apportionment | up to 3 people, amounts 1, 2, 5, 100, parameters 0..3, 33, 34, 66, 100 | 84 k | the rounding of every mode, accepted and rejected |
| greedy | 4 users, balances -3..3, both match orders | 10 k | `NeverExceeds`, `OnePerPair`, `MatchesTransfers`, `Terminates` |
| ledger | 2 handlers, 3 users (1 admin), 2 bills, 3 rows | 547 k | `ZeroSum`, `SnapshotExact`, `PaysInFull`, `NeverFlips`, `ClearsBoard`, `AppendOnly` |
| wizard | rosters of 1 and 2; 1 handler at a time over every button, 2 amounts and 2 modes; or 2 at once over the buttons that lead to a write | 1.2 M | `ServiceAccepts` (what Submit lets through is valid), `SelectedInRoster`, `OneExpensePerDraft` |
| roster | 2 handlers, 2 people, 1 handle, 2 groups, 2 rows; symmetric | 2.8 M | `OneMembership`, `OneRowEach`, `ClaimIsLocal` |
| gate | 3 handlers, 2 updates on their way | 165 k | `FlagExact`, and `SelfHeals`: a promoted bot that is spoken to serves again |
| event_roster | 2 handlers, 2 users without handles, 1 event, pages of one member; symmetric | 934 k | `PaintHolds`, `FreshTapFlips`, `NeverBlank` (no empty page while there are members), and the refinement `ImplementsBook` |
| event_closed, torn_read, wizard_roster | as above | | a stated promise the code does not keep, section 5 |

**Why the bounds are enough.** Every race here is between two handlers, and a slot is reused without limit, so a
slow handler can meet any sequence of fast ones; a third slot matters only where handlers compete for the lock
(event_live). Two events are one to close and one to open meanwhile. Three people and a bill of 4 cents leave a
cent over; three rows are an expense, a settlement and a third to void or race. Four users with three cents
give chains of two debtors and two creditors in every pattern of ties. The two rosters of the wizard differ in
length and in who comes first. Two rows in Roster are two accounts, or an account and a placeholder. One handle is
enough to be competed for, lost and mentioned. Two members on pages of one are two pages, of which a leave
removes one, and without handles either may come first at each read; one event is opened, edited, closed, and still
charged by an expense on its way (in the book, `Charge` on a closed event). In the gate the third handler lets a
command ask Telegram while one status update overtakes another. `MaxEntries`, `MaxCents`, `MaxPeople`, `MaxRows`,
`MaxStream`, `MaxPage` and `MaxNamed` are bounds of the runs only; the proofs hold for all of their values.

**What a property leaves out.** `ZeroSum` holds row by row: it sees an entry counted on one side only, not one voided
twice, which is `AppendOnly`. `FlagExact` is about writers of the flag that nobody overtook; of the others `SelfHeals`
says that a wrong no is mended, and a wrong yes is not (section 5). `FreshTapFlips` is about buttons that still hold
when the handler reads the list: those that do not are `TapTogglesShown`. With the one event of its run a button
cannot outlive its event into the next, which the theorem covers. `ClaimIsLocal` judges each claim when it is made, and
does not forbid a second one to overwrite the first.

**Fairness.** Safety runs assume none. `event_live` assumes weak fairness of each step of a started handler,
because its database and Telegram calls return or time out, and strong fairness of `Acquire`, because
PostgreSQL grants a row lock to its waiters in turn while the lock is free again and again. Nothing is assumed
of arrivals, refusals or errors in particular. `gate` assumes
strong fairness of each handler's next step and of handing out the next update, for the same reasons: steps of the
gate wait for the row lock, and updates for a free slot. That calls stop failing and that somebody keeps talking
to the bot are premises of `SelfHeals` itself. `greedy` assumes that a running loop goes on.

Apportionment and Greedy stop when the algorithm returns, and their configurations allow it; every other run
checks for deadlock.

Each property of a passing run has a mutant: a plausible slip in one modelled definition (`AcquireUnlocked`,
`GiveCentLost`, `FetchAnyRow`, ...) under which TLC finds the property violated.

## 5. Where code and documentation disagree

- **event_closed / `ClosedRejectsSubmit`.** A wizard started in an event files under that event after it was
  closed: `_submit` uses the stored id (`actions.py:413`). `docs/spec.md:417`: "a closed event rejects new tagging".
- **torn_read / `SnapshotZeroSum`.** A Submit, which takes no group lock, commits between two SELECTs of a
  settle-up; the balances are off by the whole expense (`repositories.py:245`). With the lock respected the sum is
  exact, which is `SnapshotExact`.
- **wizard_roster / `RosterFollowsScope`.** The scope toggle stores scope and currency, then awaits the roster; an
  Add tapped meanwhile files the new scope with the old people (`actions.py:198`).

More statements are in the modules and in no run, because the code does not keep them:

- `JoinLinksMentions` (Roster): `users.upsert` looks for a placeholder only when the account has no row
  (`repositories.py:468`). Somebody first met in one group while a mention makes a placeholder of their handle in
  another remains two people when they join it. `docs/spec.md:61` says that the person's next interaction claims it.
- `TapTogglesShown` (EventRoster): "a stale index/page can't corrupt anything" (`event.py:697`). The index is looked
  up in the list of the moment, so after a leave, or among members without a username, a tap may toggle somebody
  else, and after a close and a new event the roster of that one. `FreshTapFlips` is what does hold.
- `RejectedLeavesRoster` (EventRoster): "a rejected command never creates ... roster rows" (`addexpense.py:125`).
  An expense rejected for its shares has written them by then.
- `FlagCurrent` (AdminGate): the flag is "kept current by the my_chat_member stream" (`admin_gate.py:32`). A
  demotion whose nudge is refused is rolled back, and an overtaken one is overwritten; a flag that stays true is never
  asked about again. `FlagExact` is what holds when neither happened.
- `CommandVerdict` (EventScope): a typed /event pause may answer "already paused" from a stale copy.
  `ClosedRejectsCommand` is violated in the same way, by the copy of the pointer a typed command got before the lock.
- `AnswersItsPrompt` (Wizard): a reply to the prompt of an earlier split mode is taken as a share in the new one.

`docs/spec.md:44` also describes `/event reopen` and `/event list`, which are not in the code and so not in the models.

## 6. Proofs

Each holds for all values of the constants that meet the modules' assumptions: any number of handlers, users,
groups and events, any amounts and weights, any bounds.

**EventScope_proofs.** `TypeCorrect`, `OneOpenHolds`, `ActiveIsOpenHolds`, `LookupHoldsAlways`, `Implements`,
`ButtonVerdictHolds`, `TapFilesActiveHolds`.
`OneOpen` is not inductive: a handler about to commit "open e" breaks it unless nothing is open. The invariant
adds `LockHeld` (a handler between lookup and commit holds the lock), `FinderIsEventCmd`, `LookupHolds` (what it
found is still so, as nobody else may commit a change) and `WriteLegal` (its uncommitted write is what the command
does with what was found). The refinement then maps `Commit` to one step of `EventLife`, all else to a stutter.
For the buttons a second invariant says that what a button handler read of the group row after taking the lock
(`FreshTap`) is still the committed row (`TapInv`).

**Split_proofs.** The laws of sums over finite sets, and of the closed forms what their users rely on. A sum is a
fold along an arbitrary choice of the next element. Its laws need induction over finite sets; since no installed
prover can instantiate a predicate, the induction (`SetInd`) is stated of a *set* of subsets that has {} and has a
set whenever it has it less each of its elements. From it follow that a sum may be taken apart at any element
(`OverTake`), term by term (`OverPlus`), by rows or by columns (`Exchange`), and along a renaming (`Reindex`).
- `SharesAddUp`, `ApportionAddsUp`: the shares add up to the amount. The remainders add up to a multiple of the
  total weight, each is below it, so that fewer cents are left over than there are remainders (`FewLeftOver`), and
  as many people rank before the cut (`Ranks`: a strict total order puts exactly m elements before the m-th).
- `ApportionWithinACent`, `ApportionMonotone`: from floor and remainder of one weight (`FloorRem`, `FloorMonotone`).
- `AllSettled`, with `DebtorsPay` and `CreditorsGet`: a debtor's interval is cut up by the creditors' intervals,
  which lie end to end from 0, so the shared parts add up to the part below the creditors' total (`RowSum`, by
  induction over the creditors in their order); that is all of it if the credits reach as far as the debts. The
  other side is the same lemma. `EndToEnd` says that in a sorted list each interval starts where the last one ended.

**Money_proofs.** Of the rounding: `TypeOKHolds`, `AllHandedOutHolds`, `ReconcilesHolds`, `WithinACentHolds`,
`MonotoneHolds`, `ClosedFormHolds`. The slice `remainders[:left_over]` ends at the list's end, so `AllHandedOut` needs
fewer cents left over than people. `SplitInv` carries the partial sums of the weights (`Prefixes`) and that the first
k floors leave over `amount * upto[k] - allocated * total`, at least 0 and at most `k * (total - 1)` (`Floors`). `LoopInv` adds
what each phase has computed in terms of the closed form: the weights and their sum so far (`Weighed`, `Summing`),
the verdict on the split (`Judged`), the floors taken (`Flooring`), and, after the sort, that the people before k in the
line have their cent (`Handing`). With k at the end that is `Shares`, and what the closed form promises carries over.
Of the transfers: `NeverExceedsHolds`, `OnePerPairHolds`, `FewHolds`, `MatchesTransfersHolds`. `GreedyInv`: what
remains of each party never exceeds its balance (`Left`), every transfer joins positions the pointers have reached, at
least one of them passed for good (`Passed`), so the current pair is a new one, and there are no more transfers than
pointer moves (`Count`). `MatchInv` adds that both lists hold their whole side in order (`InOrder`); that the parties
pointed at have left what lies beyond one common mark, the later of their intervals' starts (`StillOwed`), so that the
next payment is the overlap of the two; and that the list has exactly the overlaps of the pairs passed (`Recorded`): a
pair that is skipped shares nothing, as one of its intervals ends before the other starts. When a side is exhausted
every pair is passed.

**LedgerTx_proofs.** `SnapshotExactHolds`: a handler no Submit raced has, after q SELECTs, exactly the q-th partial
sum of the committed ledger (`Coherent`), because every commit but a Submit's needs the lock it holds (`Locked`,
`Reading`). `PaysInFullHolds`: what was looked up is what is suggested by the committed balances (`Looked`), for the
same reason. `AppendOnlyHolds`: the row a void fetched, or is about to stamp, is still unvoided (`Fetched`), as
another stamp would need the lock, and a Submit only appends; `Shape` says that the ledger and every buffer are
sequences of rows.
`TypeOKHolds`, `ZeroSumHolds`: every row, committed or buffered, is an expense whose shares add up to its amount
or a settlement between two people (`Data`); so each row cancels out over the users and, sums exchanged, so do the
balances, whatever is voided.
`NeverFlipsHolds`: a settlement written and not raced is at most what its debtor owes and its recipient is owed by
the committed balances (`Pending`), by `Owed` being at most either balance; nothing but a Submit can change these
before it commits. `ClearsBoardHolds`: what a settle-all has written is the list of all suggested transfers of the
committed balances, each once (`Clearing`); by `ZeroSum` and `AllSettled` it leaves every balance at 0.

**Roster_proofs.** `TypeCorrect`, `OneMembershipHolds`, `OneRowEachHolds`, `ClaimIsLocalHolds`. A handler past
`groups.upsert` holds its group's lock until it ends (`Locked`), so a membership it found missing is missing when it
commits the row (`Missing`); a leave, which takes no lock, can only make one go missing. For the users table, which
no group lock orders: two open transactions have written no common row and no common key (`Apart`), so the unique
indexes hold of what each would commit (`SeenOnce`); a row once claimed is never a placeholder again, so what a
handler saw before its claim is still true if there is anything left to claim (`Looked`, `Linked`).

**EventRoster_proofs.** `TypeCorrect`, `PaintAlwaysHolds`, `FreshTapAlwaysFlips`, `NeverBlankHolds`, `Implements`. A handler past
`groups.upsert` is the lock's holder (`LockHeld`), so the edit and the receipt it decided on remain a step of the
book (`Promise`, `AllLegal`) until it commits; an event not begun has nobody on its roster (`Blank`), so beginning
one sets it to its first member. `Commit` is mapped to that step, everything else to `Hush` or a stutter. For `NeverBlank`, places are handed out one
to one, so every place of the list is somebody's (`PlaceTaken`), the first place of the last page too
(`LastPageBegins`).

**AdminGate_proofs.** `TypeCorrect`, `FlagExactHolds`. The last update on its way says what Telegram says
(`StreamLast`); writers that are alone exclude each other (`AloneIsAlone`); one that is alone, with nothing left on
its way, carries the present status (`AloneKnows`) and writes what it knows (`PutsWhatItKnows`).

**Wizard_proofs.** `TypeCorrect`, `SelectedInRosterHolds`, `OneExpensePerDraftHolds`, `ServiceAcceptsHolds`. `Typed` also fixes what a
handler carries across an await; a reload replaces the roster and the selection in one step, which is why the
selection never points outside it; `Once` counts the handlers that write for the present draft, of which
`submitting` allows one. For `ServiceAccepts`, `Typed` has every write awaiting the service carry a `Valid` split: the
wizard's own check at Submit, on shares that may have been entered for another selection or mode, implies the
service's (`SubmitsValid`), sums over the draft's places and over the people selected being the same.

The assumptions are those the modules declare on their constants: identifiers are distinct, null values are not
identifiers, users are natural numbers (their ids' order), traffic consists of jobs, weights and amounts are
naturals, the wizard's people and the users of EventRoster are
finitely many (`WizardPeople`, `RosterUsers`). TLC evaluates them in the runs.

**Model-checked only.** Liveness (`HandlersFinish`, `Terminates`, `SelfHeals`) is out of the prover's reach, and so is
induction whose hypothesis is a predicate; where a sum needed one, it is about a set instead, as above. Every safety
property of a passing run is also a theorem. `AllHandedOutHolds`, `FewHolds` and `AllSettled` are proved and in no
run: the first says that the slice of the remainders is long enough, without which `Reconciles` would fail; the second
bounds the number of transfers and so, each pass of the loop emitting one, the loop; the third is about the closed
form alone. The three disagreements of section 5 that have runs
are counterexamples, and there is nothing to prove of them.

## 7. Not modelled

- The pickers and repaints of /settleup and the preview and pages of /void: views that are read again when tapped.
  What a tap writes is modelled.
- Statements, group info and /balance: apart from the upsert of who reads them, which is Roster's, they only read.
  The void buttons of a statement (`sv:`) choose an entry and ask; their "Yes" is a `vd:` tap, handled by `void.py`
  under the lock, which is `FetchRow` and `VoidRow` of LedgerTx.
- Parsing and formatting: pure functions of text; their results are the models' inputs.
- Group settings: each is one assignment under the group's lock. That a handler may use an older value of the
  simplify toggle is in LedgerTx.
- Names and replies, except the receipts of roster edits, which are promises.
- A restart: drafts live in memory and are simply gone, transactions are rolled back, which is `GiveUp`, `Abort` and
  `Raise`. A database that loses commits, and Telegram updates delivered twice, are outside.
- The connection pool, configuration, logging.

## 8. What could follow

- Proofs: the statements of section 5 that hold under a premise the code often meets (a /event pause typed when nothing
  else runs, a reply to the prompt last asked), as conditional properties with a run and a theorem each.
- Models: the wizard's unlocked Submit together with the draft it comes from (EventScope has the event it keeps,
  LedgerTx its write, Wizard the draft, each alone); several currencies in one ledger, which the code keeps apart by
  `GROUP BY currency`; the preview of /void, whose buttons name entries by id.
