------------------------------- MODULE Notify -------------------------------
(***************************************************************************)
(* Alerts and their messages: bmacd/src/notify/{mod,alerts,outbox,store}.rs*)
(* and the answers of Postmark as bmac-notify/src/postmark.rs reads them.  *)
(*                                                                         *)
(* One condition of one resource, one recipient.  The cluster's store is   *)
(* in pmxcfs, behind its lock; a host without quorum uses a store of its   *)
(* own, merged when quorum is back.  A store is two records written one    *)
(* after the other: the book of alerts, then the outbox.  Times are ages   *)
(* that grow up to the limit the code compares them with.                  *)
(***************************************************************************)
EXTENDS Integers, FiniteSets

CONSTANTS
    NHosts,
    Partitions,     \* the sets of hosts that may be left with quorum
    Reopen, Throttle, KeepDone,     \* REOPEN_MS, the throttle, KEEP_DONE_MS
    HeldRetry, MaxRetry,            \* HELD_RETRY_MS, MAX_RETRY_MS
    MaxEntries,                     \* MAX_ENTRIES
    MaxEvents                       \* bound: changes of the condition, crashes, changes of quorum,
                                    \* lost or refused sends

ASSUME NoteAssumption ==
    /\ NHosts \subseteq Nat \ {0}
    /\ HeldRetry \in Nat /\ MaxRetry \in Nat /\ MaxEntries \in Nat

Cluster == 0
Stores == {Cluster} \cup NHosts
Never == -1

\* The condition: absent, a warning within its hold time, a warning, critical.
Absent == 0
Holding == 1
Warning == 2
Critical == 3

NoAlert == [id |-> 0, sev |-> 0, state |-> "resolved", gone |-> 0, gen |-> 0, told |-> Never]
Kinds == {"opened", "resolved"}
Keys == [id : Nat, kind : Kinds, gen : Nat]

VARIABLES
    cond,       \* the condition as it is
    book,       \* store -> its alert
    box,        \* store -> its outbox: [entries, unauthorized, refused]
    lock,       \* the host that updates the cluster's store, or 0
    quorate,    \* the hosts with quorum
    duty,       \* the host among them that has the duty, or 0
    fresh,      \* the hosts that started less than STARTUP_GRACE_MS ago
    at,         \* host -> where its tick is
    token, sender, templates,   \* what Postmark makes of the settings: TRUE when good
    opened, flips, troubles,
    copies,     \* history: key -> how often it was delivered
    ended       \* history: the keys recorded as sent or failed

noteVars == <<cond, book, box, lock, quorate, duty, fresh, at, token, sender, templates,
              opened, flips, troubles, copies, ended>>

Resting == [pc |-> "idle", use |-> Cluster, mine |-> FALSE, plan |-> {}, todo |-> {},
            results |-> {}, token |-> TRUE, sender |-> TRUE]
EmptyBox == [entries |-> {}, unauthorized |-> FALSE, refused |-> FALSE]
IsEmpty(s) == book[s] = NoAlert /\ box[s].entries = {}

\* delay: the wait after the next attempt that fails.
Entry(k) == [key |-> k, state |-> "pending", wait |-> 0, delay |-> 1, age |-> Never]
KeysOf(es) == {e.key : e \in es}

\* Outbox::enqueue
Enqueue(es, new) == es \cup {n \in new : n.key \notin KeysOf(es)}

\* Outbox::prune: beyond MAX_ENTRIES the entries that ended first go, of those
\* that ended together the one queued first.
Ended(es) == {e \in es : e.age # Never}
QueuedBefore(j, k) ==
    \/ j.id < k.id
    \/ j.id = k.id /\ j.gen < k.gen
    \/ j.id = k.id /\ j.gen = k.gen /\ j.kind = "opened" /\ k.kind = "resolved"
EndedBefore(e, f) == e.age > f.age \/ (e.age = f.age /\ QueuedBefore(e.key, f.key))
Surplus(es) ==
    {e \in Ended(es) : Cardinality({f \in Ended(es) : EndedBefore(f, e)}) < Cardinality(es) - MaxEntries}
Prune_any(es) ==
    IF Cardinality(es) > MaxEntries THEN {e \in es : e.age = Never => e.key.kind = "opened"} ELSE es
Prune(es) ==
    LET kept == es \ {e \in Ended(es) : e.age > KeepDone} IN
    IF Cardinality(kept) > MaxEntries THEN kept \ Surplus(kept) ELSE kept

-----------------------------------------------------------------------------
(* The alert.                                                              *)

\* Book::evaluate: the alert after the condition c was seen, and the change.
Known(a) == IF a.id # 0 /\ a.state = "resolved" /\ a.gone > Reopen THEN NoAlert ELSE a
Evaluated(b, c, mayResolve) ==
    LET a == Known(b) IN
    CASE c >= Warning /\ a.id = 0 ->
            [alert |-> [NoAlert EXCEPT !.id = opened + 1, !.sev = c, !.state = "open", !.gen = 1],
             change |-> "opened"]
      [] c >= Warning /\ a.id # 0 /\ a.state = "resolved" ->
            [alert |-> [a EXCEPT !.state = "open", !.sev = c, !.gen = @ + 1, !.gone = 0],
             change |-> "reopened"]
      [] c >= Warning /\ a.state # "resolved" ->
            [alert |-> [a EXCEPT !.sev = c, !.gen = IF c > a.sev THEN @ + 1 ELSE @],
             change |-> IF c > a.sev THEN "escalated" ELSE "none"]
      [] mayResolve /\ c = Absent /\ a.state # "resolved" ->
            [alert |-> [a EXCEPT !.state = "resolved", !.gone = 0], change |-> "resolved"]
      [] OTHER -> [alert |-> a, change |-> "none"]

\* plan: whether a change calls for a message about the alert.
Tells(a, change) ==
    CASE change = "escalated" -> a.state # "acknowledged"
      [] change \in {"opened", "reopened"} -> a.told = Never \/ a.told >= Throttle
      [] change = "resolved" -> a.told # Never
      [] OTHER -> FALSE
KindOf(change) == IF change = "resolved" THEN "resolved" ELSE "opened"
Told(a, change) == IF Tells(a, change) /\ change # "resolved" THEN [a EXCEPT !.told = 0] ELSE a
Planned(a, change) ==
    IF Tells(a, change) THEN {Entry([id |-> a.id, kind |-> KindOf(change), gen |-> a.gen])} ELSE {}

-----------------------------------------------------------------------------
(* A host's tick.                                                          *)

Goes(h, r) == at' = [at EXCEPT ![h] = r]
Ends(h) == Goes(h, Resting)
\* pmxcfs can be written with quorum, under its lock.
Takes(h, s) == s = Cluster => h \in quorate /\ lock = 0
Holds(h, s) == s = Cluster => h \in quorate /\ lock = h
Locks(h, s) == lock' = IF s = Cluster THEN h ELSE lock
Unlocks(h, s) == lock' = IF s = Cluster THEN 0 ELSE lock

\* Notifier::evaluate reads the membership once.
TickStart(h) ==
    /\ at[h].pc = "idle"
    /\ \/ /\ h \in quorate /\ (~IsEmpty(h) \/ duty = h)
          /\ Goes(h, [Resting EXCEPT !.pc = IF IsEmpty(h) THEN "evaluate" ELSE "merge",
                                     !.mine = duty = h])
       \/ /\ h \notin quorate
          /\ Goes(h, [Resting EXCEPT !.pc = "evaluate", !.use = h])
    /\ UNCHANGED <<cond, book, box, lock, quorate, duty, fresh, token, sender, templates,
                   opened, flips, troubles, copies, ended>>

\* Notifier::merge_local: Book::merge keeps the alert the cluster has.
MergeBook(h) ==
    /\ at[h].pc = "merge" /\ Takes(h, Cluster) /\ Locks(h, Cluster)
    /\ book' = [book EXCEPT ![Cluster] = IF @ = NoAlert THEN book[h] ELSE @]
    /\ Goes(h, [at[h] EXCEPT !.pc = "mergebox"])
    /\ UNCHANGED <<cond, box, quorate, duty, fresh, token, sender, templates, opened, flips, troubles, copies, ended>>
Merged(h) == box' = [box EXCEPT ![Cluster].entries = Enqueue(@, box[h].entries)]
MergeBox(h) ==
    /\ at[h].pc = "mergebox" /\ Holds(h, Cluster) /\ Unlocks(h, Cluster)
    /\ Merged(h)
    /\ Goes(h, [at[h] EXCEPT !.pc = "clear"])
    /\ UNCHANGED <<cond, book, quorate, duty, fresh, token, sender, templates, opened, flips, troubles, copies, ended>>
MergeClear(h) ==
    /\ at[h].pc = "clear"
    /\ book' = [book EXCEPT ![h] = NoAlert] /\ box' = [box EXCEPT ![h] = EmptyBox]
    /\ IF at[h].mine THEN Goes(h, [Resting EXCEPT !.pc = "evaluate"]) ELSE Ends(h)
    /\ UNCHANGED <<cond, lock, quorate, duty, fresh, token, sender, templates, opened, flips, troubles, copies, ended>>

\* A host that has just started may not have heard of the condition yet.
Sees(h) == IF h \in fresh THEN {cond, Absent} ELSE {cond}
MayResolve_always(h) == TRUE
MayResolve(h) == h \notin fresh

\* Notifier::evaluate and NotifyStore::update: the book is written, then the
\* outbox, where it changes; the messages are computed with the book.
Queued(s, new) == Prune(Enqueue(box[s].entries, new))
WriteBook(h) ==
    /\ at[h].pc = "evaluate" /\ Takes(h, at[h].use)
    /\ \E c \in Sees(h) :
          LET s == at[h].use
              e == Evaluated(book[s], c, MayResolve(h)) IN
          /\ opened' = IF e.change = "opened" THEN opened + 1 ELSE opened
          /\ book' = [book EXCEPT ![s] = Told(e.alert, e.change)]
          /\ IF Queued(s, Planned(e.alert, e.change)) = box[s].entries
             THEN Goes(h, [at[h] EXCEPT !.pc = "send"]) /\ UNCHANGED lock
             ELSE /\ Goes(h, [at[h] EXCEPT !.pc = "queue", !.plan = Planned(e.alert, e.change)])
                  /\ Locks(h, s)
    /\ UNCHANGED <<cond, box, quorate, duty, fresh, token, sender, templates, flips, troubles, copies, ended>>
WriteBox(h) ==
    /\ at[h].pc = "queue" /\ Holds(h, at[h].use) /\ Unlocks(h, at[h].use)
    /\ box' = [box EXCEPT ![at[h].use].entries = Queued(at[h].use, at[h].plan)]
    /\ Goes(h, [at[h] EXCEPT !.pc = "send", !.plan = {}])
    /\ UNCHANGED <<cond, book, quorate, duty, fresh, token, sender, templates, opened, flips, troubles, copies, ended>>

\* An update of the cluster's store fails where quorum is gone.
UpdateFails(h) ==
    /\ \/ at[h].pc \in {"merge", "mergebox", "evaluate", "queue"}
       \/ at[h].pc = "sending" /\ at[h].todo = {}
    /\ at[h].use = Cluster /\ h \notin quorate
    /\ Ends(h) /\ lock' = IF lock = h THEN 0 ELSE lock
    /\ UNCHANGED <<cond, book, box, quorate, duty, fresh, token, sender, templates, opened, flips, troubles, copies, ended>>

\* Notifier::send reads the outbox without the lock.
WaitingEntries(es) == {e \in es : e.state \in {"pending", "held"}}
DueEntries_anyState(s) == {e \in box[s].entries : e.wait = 0}
DueEntries(s) == {e \in WaitingEntries(box[s].entries) : e.wait = 0}
SendNothing(h) ==
    /\ at[h].pc = "send"
    /\ box[at[h].use].unauthorized \/ DueEntries(at[h].use) = {}
    /\ Ends(h)
    /\ UNCHANGED <<cond, book, box, lock, quorate, duty, fresh, token, sender, templates,
                   opened, flips, troubles, copies, ended>>
SendStart(h) ==
    /\ at[h].pc = "send"
    /\ ~box[at[h].use].unauthorized /\ DueEntries(at[h].use) # {}
    /\ Goes(h, [at[h] EXCEPT !.pc = "sending", !.todo = KeysOf(DueEntries(at[h].use)),
                             !.token = token, !.sender = sender])
    /\ UNCHANGED <<cond, book, box, lock, quorate, duty, fresh, token, sender, templates,
                   opened, flips, troubles, copies, ended>>

\* send_due: one message after another, up to a refused token or sender.
Answered(h, k, outcome) ==
    Goes(h, [at[h] EXCEPT !.todo = IF outcome \in {"bad token", "sender refused"} THEN {} ELSE @ \ {k},
                          !.results = @ \cup {[key |-> k, outcome |-> outcome]}])
Delivered(k) ==
    copies' = [j \in DOMAIN copies \cup {k} |->
                 (IF j \in DOMAIN copies THEN copies[j] ELSE 0) + (IF j = k THEN 1 ELSE 0)]
Sends(h, k) ==
    /\ at[h].pc = "sending" /\ k \in at[h].todo
    /\ CASE ~at[h].token ->
               Answered(h, k, "bad token") /\ UNCHANGED <<copies, troubles>>
         [] at[h].token /\ ~at[h].sender ->
               Answered(h, k, "sender refused") /\ UNCHANGED <<copies, troubles>>
         [] at[h].token /\ at[h].sender /\ ~templates ->
               Answered(h, k, "template missing") /\ UNCHANGED <<copies, troubles>>
         [] OTHER ->
               \/ /\ Answered(h, k, "sent") /\ UNCHANGED troubles
                  /\ Delivered(k)
               \/ /\ flips + troubles < MaxEvents /\ troubles' = troubles + 1
                  /\ \/ Answered(h, k, "failed") /\ UNCHANGED copies
                     \/ /\ Answered(h, k, "retry")   \* no answer: delivered or not
                        /\ Delivered(k) \/ UNCHANGED copies
    /\ UNCHANGED <<cond, book, box, lock, quorate, duty, fresh, token, sender, templates,
                   opened, flips, ended>>

\* Outbox::record: what sending came to, for an entry that still waits.
Backoff(delay) == IF delay > MaxRetry THEN MaxRetry ELSE delay
Outcome(e, o) ==
    CASE o = "sent" -> [e EXCEPT !.state = "sent", !.age = 0]
      [] o = "failed" -> [e EXCEPT !.state = "failed", !.age = 0]
      [] o = "retry" -> [e EXCEPT !.wait = Backoff(e.delay), !.delay = Backoff(2 * @)]
      [] o = "template missing" -> [e EXCEPT !.state = "held", !.wait = HeldRetry]
      [] OTHER -> e
Recorded(e, results) ==
    IF e.state \in {"pending", "held"} /\ \E r \in results : r.key = e.key
    THEN Outcome(e, (CHOOSE r \in results : r.key = e.key).outcome) ELSE e
\* A refused sender holds back every pending message.
HeldBack(es, refusal) ==
    {IF refusal /\ e.state = "pending" /\ e.wait < HeldRetry THEN [e EXCEPT !.wait = HeldRetry] ELSE e
        : e \in es}
Came(h, o) == \E r \in at[h].results : r.outcome = o
Record(h) ==
    /\ at[h].pc = "sending" /\ at[h].todo = {} /\ Takes(h, at[h].use)
    /\ LET es == {Recorded(e, at[h].results) : e \in box[at[h].use].entries}
           anySent == Came(h, "sent") IN
       box' = [box EXCEPT ![at[h].use] =
           [entries |-> HeldBack(es, Came(h, "sender refused")),
            unauthorized |-> (@.unauthorized /\ ~anySent) \/ Came(h, "bad token"),
            refused |-> (@.refused /\ ~anySent) \/ Came(h, "sender refused")]]
    /\ Ends(h)
    /\ UNCHANGED <<cond, book, lock, quorate, duty, fresh, token, sender, templates, opened, flips, troubles, copies>>
    /\ ended' = ended \cup {r.key : r \in {r \in at[h].results : r.outcome \in {"sent", "failed"}}}

Ticks(h) ==
    \/ TickStart(h) \/ MergeBook(h) \/ MergeBox(h) \/ MergeClear(h) \/ WriteBook(h) \/ WriteBox(h)
    \/ UpdateFails(h) \/ SendNothing(h) \/ SendStart(h) \/ (\E k \in at[h].todo : Sends(h, k))
    \/ Record(h)

-----------------------------------------------------------------------------
(* The Dashboard's calls, through a host with quorum.                      *)

Reachable == quorate # {} /\ lock = 0
Acknowledge ==
    /\ Reachable /\ book[Cluster].state = "open"
    /\ book' = [book EXCEPT ![Cluster].state = "acknowledged"]
    /\ UNCHANGED <<cond, box, lock, quorate, duty, fresh, at, token, sender, templates,
                   opened, flips, troubles, copies, ended>>

\* Notifier::set_token: lets sending resume.
SetToken ==
    /\ Reachable /\ (~token \/ box[Cluster].unauthorized)
    /\ token' = TRUE /\ box' = [box EXCEPT ![Cluster].unauthorized = FALSE]
    /\ UNCHANGED <<cond, book, lock, quorate, duty, fresh, at, sender, templates, opened, flips, troubles, copies, ended>>

\* Notifier::save_settings, with Outbox::retry_sender.
Retried(es, refusal) ==
    {IF refusal /\ e.state = "pending" THEN [e EXCEPT !.wait = 0] ELSE e : e \in es}
SaveSettings ==
    /\ Reachable /\ (~sender \/ box[Cluster].refused)
    /\ sender' = TRUE
    /\ box' = [box EXCEPT ![Cluster].refused = FALSE,
                          ![Cluster].entries = Retried(@, box[Cluster].refused)]
    /\ UNCHANGED <<cond, book, lock, quorate, duty, fresh, at, token, templates, opened, flips, troubles, copies, ended>>

\* Notifier::create_templates, with Outbox::release_held.
Released(es) == {IF e.state = "held" THEN [e EXCEPT !.state = "pending", !.wait = 0] ELSE e : e \in es}
CreateTemplates ==
    /\ Reachable /\ ~templates /\ token
    /\ templates' = TRUE
    /\ box' = [box EXCEPT ![Cluster].entries = Released(@)]
    /\ UNCHANGED <<cond, book, lock, quorate, duty, fresh, at, token, sender, opened, flips, troubles, copies, ended>>

-----------------------------------------------------------------------------
(* The condition, time, quorum and crashes.                                *)

CondChanges ==
    /\ flips + troubles < MaxEvents /\ flips' = flips + 1
    /\ \E c \in {Absent, Holding, Critical} : c # cond /\ cond' = c
    /\ UNCHANGED <<book, box, lock, quorate, duty, fresh, at, token, sender, templates,
                   opened, troubles, copies, ended>>

Older(n, limit) == IF n = Never \/ n > limit THEN n ELSE n + 1
Aged(e) == [e EXCEPT !.wait = IF @ = 0 THEN 0 ELSE @ - 1, !.age = Older(@, KeepDone)]
TimePasses ==
    /\ cond' = IF cond = Holding THEN Warning ELSE cond
    /\ fresh' = {}
    /\ book' = [s \in Stores |->
          IF book[s] = NoAlert THEN NoAlert
          ELSE [book[s] EXCEPT !.told = Older(@, Throttle - 1),
                               !.gone = IF book[s].state = "resolved" THEN Older(@, Reopen) ELSE 0]]
    /\ box' = [s \in Stores |-> [box[s] EXCEPT !.entries = {Aged(e) : e \in @}]]
    /\ UNCHANGED <<lock, quorate, duty, at, token, sender, templates, opened,
                   flips, troubles, copies, ended>>

\* Membership::duty: the first host that has quorum.
DutyOf(q) == IF q = {} THEN 0 ELSE CHOOSE h \in q : \A g \in q : h <= g
QuorumChanges ==
    /\ flips + troubles < MaxEvents /\ troubles' = troubles + 1
    /\ \E q \in Partitions : q # quorate /\ quorate' = q /\ duty' = DutyOf(q)
    /\ UNCHANGED <<cond, book, box, lock, fresh, at, token, sender, templates, opened, flips, copies, ended>>
QuorumReturns ==
    /\ quorate # NHosts /\ quorate' = NHosts /\ duty' = DutyOf(NHosts)
    /\ UNCHANGED <<cond, book, box, lock, fresh, at, token, sender, templates, opened, flips, troubles, copies, ended>>

\* Postmark refuses the token or the sender, or lost the templates.
PostmarkRefuses ==
    /\ flips + troubles < MaxEvents /\ troubles' = troubles + 1
    /\ \/ token' = FALSE /\ UNCHANGED <<sender, templates>>
       \/ sender' = FALSE /\ UNCHANGED <<token, templates>>
       \/ templates' = FALSE /\ UNCHANGED <<token, sender>>
    /\ UNCHANGED <<cond, book, box, lock, quorate, duty, fresh, at, opened, flips, copies, ended>>

\* bmacd ends and starts again; its lock is taken over.
HostCrashes(h) ==
    /\ flips + troubles < MaxEvents /\ troubles' = troubles + 1
    /\ Ends(h) /\ fresh' = fresh \cup {h}
    /\ lock' = IF lock = h THEN 0 ELSE lock
    /\ UNCHANGED <<cond, book, box, quorate, duty, token, sender, templates, opened, flips, copies, ended>>

NoteInit ==
    /\ cond \in {Absent, Holding, Critical} /\ book = [s \in Stores |-> NoAlert] /\ box = [s \in Stores |-> EmptyBox]
    /\ lock = 0 /\ quorate = NHosts /\ duty = DutyOf(NHosts) /\ fresh = {}
    /\ at = [h \in NHosts |-> Resting]
    /\ token = TRUE /\ sender = TRUE /\ templates = TRUE
    /\ opened = 0 /\ flips = 0 /\ troubles = 0
    /\ copies = [k \in {} |-> 0] /\ ended = {}

Operator == Acknowledge \/ SetToken \/ SaveSettings \/ CreateTemplates
NoteNext ==
    \/ \E h \in NHosts : Ticks(h) \/ HostCrashes(h)
    \/ Operator \/ CondChanges \/ TimePasses \/ QuorumChanges \/ QuorumReturns
    \/ PostmarkRefuses

NoteSpec == NoteInit /\ [][NoteNext]_noteVars

-----------------------------------------------------------------------------
(* Properties.                                                             *)

Alerts == [id : Nat, sev : Nat, state : {"open", "acknowledged", "resolved"}, gone : Nat,
           gen : Nat, told : Nat \cup {Never}]
Entries == [key : Keys, state : {"pending", "held", "sent", "failed"}, wait : Nat, delay : Nat,
            age : Nat \cup {Never}]
Boxes == [entries : SUBSET Entries, unauthorized : BOOLEAN, refused : BOOLEAN]
Steps == {"idle", "merge", "mergebox", "clear", "evaluate", "queue", "send", "sending"}
Results == [key : Keys, outcome : {"sent", "failed", "retry", "bad token", "sender refused",
                                   "template missing"}]
Places == [pc : Steps, use : Stores, mine : BOOLEAN, plan : SUBSET Entries, todo : SUBSET Keys,
           results : SUBSET Results, token : BOOLEAN, sender : BOOLEAN]

\* No key twice, and an entry is done exactly when it has an age.
Sound(es) ==
    /\ \A e, f \in es : e.key = f.key => e = f
    /\ \A e \in es : e.age = Never <=> e.state \in {"pending", "held"}

\* Every variable has its type, outboxes are sound, a host uses the cluster's
\* store or its own and plans fresh entries.
NoteTypeOK ==
    /\ cond \in Absent .. Critical /\ lock \in {0} \cup NHosts /\ opened \in Nat
    /\ book \in [Stores -> Alerts] /\ box \in [Stores -> Boxes] /\ at \in [NHosts -> Places]
    /\ token \in BOOLEAN /\ sender \in BOOLEAN
    /\ \A s \in Stores : Sound(box[s].entries)
    /\ \A h \in NHosts : at[h].use \in {Cluster, h} /\ \A e \in at[h].plan : e = Entry(e.key)

\* A message goes out again only for a reason: a lost answer, a crash, a
\* change of quorum ("A change of duty host may resend a message whose
\* delivery wasn't recorded"); a partition moves the duty away and back.
ResentForAReason == \A k \in DOMAIN copies : copies[k] <= 1 + 2 * troubles

\* An entry that says sent was delivered, and so was what a host is about to
\* record as sent.
SentWasDelivered ==
    /\ \A s \in Stores : \A e \in box[s].entries : e.state = "sent" => e.key \in DOMAIN copies
    /\ \A h \in NHosts : \A r \in at[h].results : r.outcome = "sent" => r.key \in DOMAIN copies

\* An entry that is done was recorded as sent or given up.
DoneIsKnown ==
    \A s \in Stores : \A e \in box[s].entries : e.state \in {"sent", "failed"} => e.key \in ended

\* What a host clears from its own store the cluster's has, or had sent,
\* though others send, record and prune there since the merge.
MergedIsKept ==
    \A h \in NHosts : at[h].pc = "clear" =>
        \A e \in WaitingEntries(box[h].entries) : e.key \in KeysOf(box[Cluster].entries) \cup ended

\* An alert that is not resolved has an id.
LiveHasId == \A s \in Stores : book[s].state # "resolved" => book[s].id # 0

\* The outbox is sound: typed, what it calls sent was delivered, and nothing
\* is lost between a host's store and the cluster's.
OutboxInv == NoteTypeOK /\ SentWasDelivered /\ DoneIsKnown /\ MergedIsKept /\ LiveHasId

\* A recovery is never announced while the condition is there, also by a
\* host that has just started and has not heard from the collectors.
RecoveryIsTrue ==
    [][\A s \in Stores :
          book[s].state # "resolved" /\ book'[s].state = "resolved" /\ book'[s].id = book[s].id
             => cond = Absent]_noteVars

\* A message that waits stays in its store until it is sent or given up, or
\* until the cluster's store has it or had it sent: through prunes of a full outbox, merges
\* cut by a crash, and answers that come after the store was merged.
NoMessageVanishes ==
    [][\A s \in Stores : \A e \in WaitingEntries(box[s].entries) :
          e.key \in KeysOf(box'[s].entries) \cup KeysOf(box'[Cluster].entries) \cup ended']_noteVars

=============================================================================
