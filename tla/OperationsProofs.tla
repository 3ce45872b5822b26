-------------------------- MODULE OperationsProofs --------------------------
(***************************************************************************)
(* For every value of the constants: notifications, the copies of records  *)
(* on other hosts and updates of the cluster are sound, and with the disks *)
(* of ReplaceProofs so are the operations side by side (OperationsInv).    *)
(*                                                                         *)
(* Notify: OutboxInv is inductive.  What Outbox::prune drops was recorded  *)
(* (DoneIsKnown), so a host may clear its store although others prune the  *)
(* cluster's since the merge (MergedIsKept).                               *)
(*                                                                         *)
(* Mesh: MeshInv accounts for every record a round of catch-up or a link   *)
(* began with: it is stored, refused below the floor, in flight, or still  *)
(* to come (RoundAccounts, LinkAccounts).  Databases change by few kinds of*)
(* steps; what each keeps is shown once (the lemmas on Keeps and Fresh).   *)
(*                                                                         *)
(* Updates: UpdInv ties the installs on every host to the checkpoints and  *)
(* the place of the script, for the update and for the rollback, as long   *)
(* as no wait was given up (`stray').                                      *)
(***************************************************************************)
EXTENDS Operations, ReplaceProofs, FiniteSetTheorems

-----------------------------------------------------------------------------
(* The operators on entries.                                               *)

\* Entries that are typed and sound, and done only where history has it.
Fine(es, cp, en) ==
    /\ es \in SUBSET Entries /\ Sound(es)
    /\ \A e \in es : (e.state = "sent" => e.key \in cp) /\ (e.state \in {"sent", "failed"} => e.key \in en)

\* History only grows, and entries stay fine with it.
LEMMA FineGrows ==
  ASSUME NEW es, NEW cp, NEW en, NEW cq, NEW eq, Fine(es, cp, en), cp \subseteq cq, en \subseteq eq
  PROVE  Fine(es, cq, eq)
  BY DEF Fine

\* A fresh entry is an entry that waits.
LEMMA EntryType ==
  ASSUME NEW k \in Keys
  PROVE  Entry(k) \in Entries /\ Entry(k).key = k /\ Entry(k).state = "pending" /\ Entry(k).age = Never
  BY DEF Entry, Entries, Never

\* A set of fresh entries is fine.
LEMMA FreshFine ==
  ASSUME NEW es \in SUBSET Entries, \A e \in es : e = Entry(e.key), NEW cp, NEW en
  PROVE  Fine(es, cp, en)
<1>1. \A e \in es : e.key \in Keys
  BY DEF Entries
<1>2. \A e \in es : e.state = "pending" /\ e.age = Never
  BY <1>1, EntryType
<1> QED BY <1>2 DEF Fine, Sound

\* Outbox::enqueue keeps what is there and takes every key.
LEMMA EnqueueFine ==
  ASSUME NEW es, NEW new, NEW cp, NEW en, Fine(es, cp, en), Fine(new, cp, en)
  PROVE  Fine(Enqueue(es, new), cp, en) /\ KeysOf(es) \cup KeysOf(new) \subseteq KeysOf(Enqueue(es, new))
<1>1. \A e, f \in Enqueue(es, new) : e.key = f.key => e = f
  BY DEF Fine, Sound, Enqueue, KeysOf
<1>2. Fine(Enqueue(es, new), cp, en)
  BY <1>1 DEF Fine, Sound, Enqueue
<1>3. KeysOf(es) \cup KeysOf(new) \subseteq KeysOf(Enqueue(es, new))
  BY DEF Enqueue, KeysOf
<1> QED BY <1>2, <1>3

\* Outbox::prune drops only entries that are done.
LEMMA PruneFine ==
  ASSUME NEW es, NEW cp, NEW en, Fine(es, cp, en)
  PROVE  Fine(Prune(es), cp, en) /\ KeysOf(es) \subseteq KeysOf(Prune(es)) \cup en
<1>1. Prune(es) \subseteq es /\ \A e \in es \ Prune(es) : e.age # Never
  BY DEF Prune, Surplus, Ended
<1>2. \A e \in es : e.age # Never => e.key \in en
  BY DEF Fine, Sound, Entries
<1>3. KeysOf(es) \subseteq KeysOf(Prune(es)) \cup en
  BY <1>1, <1>2 DEF KeysOf
<1> QED BY <1>1, <1>3 DEF Fine, Sound

\* A change of the entries one by one that keeps their keys, and marks as done
\* only what history has, leaves them fine.
LEMMA ImageFine ==
  ASSUME NEW es, NEW cp, NEW en, Fine(es, cp, en), NEW es2, NEW f,
         \A e \in es : f[e] \in es2,
         \A x \in es2 : \E e \in es : x = f[e],
         \A e \in es : /\ f[e] \in Entries /\ f[e].key = e.key
                       /\ f[e].age = Never <=> f[e].state \in {"pending", "held"}
                       /\ f[e].state = "sent" => e.key \in cp
                       /\ f[e].state \in {"sent", "failed"} => e.key \in en
  PROVE  Fine(es2, cp, en) /\ KeysOf(es2) = KeysOf(es)
<1>1. Sound(es2)
  BY DEF Fine, Sound
<1>2. KeysOf(es2) = KeysOf(es)
  BY DEF KeysOf
<1> QED BY <1>1, <1>2 DEF Fine

\* Outbox::record keeps an entry's key, and calls done only what an answer was.
LEMMA OutcomeType ==
  ASSUME NEW e \in Entries, e.age = Never <=> e.state \in {"pending", "held"},
         e.state \in {"pending", "held"}, NEW o
  PROVE  /\ Outcome(e, o) \in Entries /\ Outcome(e, o).key = e.key
         /\ Outcome(e, o).age = Never <=> Outcome(e, o).state \in {"pending", "held"}
         /\ Outcome(e, o).state = "sent" => o = "sent"
         /\ Outcome(e, o).state \in {"sent", "failed"} => o \in {"sent", "failed"}
<1> USE DEF Outcome
<1>1. CASE o = "sent"
  <2>1. Outcome(e, o) = [e EXCEPT !.state = "sent", !.age = 0]
    BY <1>1
  <2>2. [e EXCEPT !.state = "sent", !.age = 0] \in Entries
    BY DEF Entries
  <2>3. Outcome(e, o).key = e.key /\ Outcome(e, o).state = "sent" /\ Outcome(e, o).age = 0
    BY <2>1 DEF Entries
  <2> HIDE DEF Outcome
  <2> QED BY <1>1, <2>1, <2>2, <2>3 DEF Never
<1>2. CASE o = "failed"
  <2>1. Outcome(e, o) = [e EXCEPT !.state = "failed", !.age = 0]
    BY <1>2
  <2>2. [e EXCEPT !.state = "failed", !.age = 0] \in Entries
    BY DEF Entries
  <2>3. Outcome(e, o).key = e.key /\ Outcome(e, o).state = "failed" /\ Outcome(e, o).age = 0
    BY <2>1 DEF Entries
  <2> HIDE DEF Outcome
  <2> QED BY <1>2, <2>1, <2>2, <2>3 DEF Never
<1>3. CASE o = "retry"
  <2> DEFINE w == Backoff(e.delay)
             d == Backoff(2 * e.delay)
  <2>1. w \in Nat /\ d \in Nat
    BY NoteAssumption DEF Backoff, Entries
  <2>2. Outcome(e, o) = [e EXCEPT !.wait = w, !.delay = d]
    BY <1>3
  <2> HIDE DEF w, d
  <2>3. [e EXCEPT !.wait = w, !.delay = d] \in Entries
    BY <2>1 DEF Entries
  <2> QED BY <1>3, <2>1, <2>2, <2>3 DEF Entries
<1>4. CASE o = "template missing"
  BY <1>4, NoteAssumption DEF Entries, Never
<1>5. CASE o \notin {"sent", "failed", "retry", "template missing"}
  BY <1>5
<1> QED BY <1>1, <1>2, <1>3, <1>4, <1>5

LEMMA RecordedFine ==
  ASSUME NEW es, NEW cp, NEW en, Fine(es, cp, en), NEW rs \in SUBSET Results,
         \A r \in rs : r.outcome = "sent" => r.key \in cp,
         \A r \in rs : r.outcome \in {"sent", "failed"} => r.key \in en
  PROVE  /\ Fine({Recorded(e, rs) : e \in es}, cp, en)
         /\ KeysOf({Recorded(e, rs) : e \in es}) = KeysOf(es)
<1>1. ASSUME NEW e \in es
      PROVE  /\ Recorded(e, rs) \in Entries /\ Recorded(e, rs).key = e.key
             /\ Recorded(e, rs).age = Never <=> Recorded(e, rs).state \in {"pending", "held"}
             /\ Recorded(e, rs).state = "sent" => e.key \in cp
             /\ Recorded(e, rs).state \in {"sent", "failed"} => e.key \in en
  <2>1. e \in Entries /\ (e.age = Never <=> e.state \in {"pending", "held"})
    BY DEF Fine, Sound
  <2>2. CASE e.state \in {"pending", "held"} /\ \E r \in rs : r.key = e.key
    <3>1. PICK q : q = CHOOSE r \in rs : r.key = e.key
      OBVIOUS
    <3>2. q \in rs /\ q.key = e.key
      BY <2>2, <3>1
    <3>3. Recorded(e, rs) = Outcome(e, q.outcome)
      BY <2>2, <3>1 DEF Recorded
    <3> QED BY <2>1, <2>2, <3>2, <3>3, OutcomeType
  <2>3. CASE ~(e.state \in {"pending", "held"} /\ \E r \in rs : r.key = e.key)
    <3>1. Recorded(e, rs) = e
      BY <2>3 DEF Recorded
    <3> QED BY <2>1, <3>1 DEF Fine
  <2> QED BY <2>2, <2>3
<1>2. PICK f : f = [e \in es |-> Recorded(e, rs)]
  OBVIOUS
<1>3. PICK es2 : es2 = {Recorded(e, rs) : e \in es}
  OBVIOUS
<1>4. /\ \A e \in es : f[e] = Recorded(e, rs) /\ f[e] \in es2
      /\ \A x \in es2 : \E e \in es : x = f[e]
  BY <1>2, <1>3
<1>5. Fine(es2, cp, en) /\ KeysOf(es2) = KeysOf(es)
  BY <1>1, <1>4, ImageFine
<1> QED BY <1>3, <1>5

\* A refused sender only lengthens waits.
LEMMA HeldBackFine ==
  ASSUME NEW es, NEW cp, NEW en, Fine(es, cp, en), NEW refusal
  PROVE  Fine(HeldBack(es, refusal), cp, en) /\ KeysOf(HeldBack(es, refusal)) = KeysOf(es)
<1> DEFINE F(e) == IF refusal /\ e.state = "pending" /\ e.wait < HeldRetry THEN [e EXCEPT !.wait = HeldRetry] ELSE e
<1>1. ASSUME NEW e \in es
      PROVE  F(e) \in Entries /\ F(e).key = e.key /\ F(e).age = e.age /\ F(e).state = e.state
  BY NoteAssumption DEF Fine, Entries
<1>2. PICK f : f = [e \in es |-> F(e)]
  OBVIOUS
<1>3. PICK es2 : es2 = HeldBack(es, refusal)
  OBVIOUS
<1>4. /\ \A e \in es : f[e] = F(e) /\ f[e] \in es2
      /\ \A x \in es2 : \E e \in es : x = f[e]
  BY <1>2, <1>3 DEF HeldBack
<1> HIDE DEF F
<1>5. \A e \in es : /\ f[e] \in Entries /\ f[e].key = e.key
                    /\ f[e].age = Never <=> f[e].state \in {"pending", "held"}
                    /\ f[e].state = "sent" => e.key \in cp
                    /\ f[e].state \in {"sent", "failed"} => e.key \in en
  BY <1>1, <1>4 DEF Fine, Sound
<1>6. Fine(es2, cp, en) /\ KeysOf(es2) = KeysOf(es)
  BY <1>4, <1>5, ImageFine
<1> QED BY <1>3, <1>6

\* Time changes waits and ages only.
LEMMA AgedFine ==
  ASSUME NEW es, NEW cp, NEW en, Fine(es, cp, en)
  PROVE  /\ Fine({Aged(e) : e \in es}, cp, en)
         /\ KeysOf({Aged(e) : e \in es}) = KeysOf(es)
         /\ \A e \in es : Aged(e).key = e.key /\ Aged(e).state = e.state
<1>1. ASSUME NEW e \in es
      PROVE  /\ Aged(e) \in Entries /\ Aged(e).key = e.key /\ Aged(e).state = e.state
             /\ Aged(e).age = Never <=> e.age = Never
  <2> DEFINE w == IF e.wait = 0 THEN 0 ELSE e.wait - 1
             a == Older(e.age, KeepDone)
  <2>1. e \in Entries
    BY DEF Fine
  <2>2. w \in Nat
    BY <2>1 DEF Entries
  <2>3. a \in Nat \cup {Never} /\ (a = Never <=> e.age = Never)
    BY <2>1 DEF Entries, Older, Never
  <2>4. Aged(e) = [e EXCEPT !.wait = w, !.age = a]
    BY DEF Aged
  <2> HIDE DEF w, a
  <2>5. [e EXCEPT !.wait = w, !.age = a] \in Entries
    BY <2>1, <2>2, <2>3 DEF Entries
  <2> QED BY <2>1, <2>3, <2>4, <2>5 DEF Entries
<1>2. PICK f : f = [e \in es |-> Aged(e)]
  OBVIOUS
<1>3. PICK es2 : es2 = {Aged(e) : e \in es}
  OBVIOUS
<1>4. /\ \A e \in es : f[e] = Aged(e) /\ f[e] \in es2
      /\ \A x \in es2 : \E e \in es : x = f[e]
  BY <1>2, <1>3
<1>5. \A e \in es : /\ f[e] \in Entries /\ f[e].key = e.key
                    /\ f[e].age = Never <=> f[e].state \in {"pending", "held"}
                    /\ f[e].state = "sent" => e.key \in cp
                    /\ f[e].state \in {"sent", "failed"} => e.key \in en
  BY <1>1, <1>4 DEF Fine, Sound
<1>6. Fine(es2, cp, en) /\ KeysOf(es2) = KeysOf(es)
  BY <1>4, <1>5, ImageFine
<1> QED BY <1>1, <1>3, <1>6

\* Outbox::retry_sender and Outbox::release_held let entries go on that wait.
LEMMA RetriedFine ==
  ASSUME NEW es, NEW cp, NEW en, Fine(es, cp, en), NEW yes
  PROVE  Fine(Retried(es, yes), cp, en) /\ KeysOf(Retried(es, yes)) = KeysOf(es)
<1> DEFINE F(e) == IF yes /\ e.state = "pending" THEN [e EXCEPT !.wait = 0] ELSE e
<1>1. ASSUME NEW e \in es
      PROVE  F(e) \in Entries /\ F(e).key = e.key /\ F(e).age = e.age /\ F(e).state = e.state
  BY DEF Fine, Entries
<1>2. PICK f : f = [e \in es |-> F(e)]
  OBVIOUS
<1>3. PICK es2 : es2 = Retried(es, yes)
  OBVIOUS
<1>4. /\ \A e \in es : f[e] = F(e) /\ f[e] \in es2
      /\ \A x \in es2 : \E e \in es : x = f[e]
  BY <1>2, <1>3 DEF Retried
<1> HIDE DEF F
<1>5. \A e \in es : /\ f[e] \in Entries /\ f[e].key = e.key
                    /\ f[e].age = Never <=> f[e].state \in {"pending", "held"}
                    /\ f[e].state = "sent" => e.key \in cp
                    /\ f[e].state \in {"sent", "failed"} => e.key \in en
  BY <1>1, <1>4 DEF Fine, Sound
<1>6. Fine(es2, cp, en) /\ KeysOf(es2) = KeysOf(es)
  BY <1>4, <1>5, ImageFine
<1> QED BY <1>3, <1>6

LEMMA ReleasedFine ==
  ASSUME NEW es, NEW cp, NEW en, Fine(es, cp, en)
  PROVE  Fine(Released(es), cp, en) /\ KeysOf(Released(es)) = KeysOf(es)
<1> DEFINE F(e) == IF e.state = "held" THEN [e EXCEPT !.state = "pending", !.wait = 0] ELSE e
<1>1. ASSUME NEW e \in es
      PROVE  /\ F(e) \in Entries /\ F(e).key = e.key /\ F(e).age = e.age
             /\ (F(e).state = e.state \/ (e.state = "held" /\ F(e).state = "pending"))
  BY DEF Fine, Entries
<1>2. PICK f : f = [e \in es |-> F(e)]
  OBVIOUS
<1>3. PICK es2 : es2 = Released(es)
  OBVIOUS
<1>4. /\ \A e \in es : f[e] = F(e) /\ f[e] \in es2
      /\ \A x \in es2 : \E e \in es : x = f[e]
  BY <1>2, <1>3 DEF Released
<1> HIDE DEF F
<1>5. \A e \in es : /\ f[e] \in Entries /\ f[e].key = e.key
                    /\ f[e].age = Never <=> f[e].state \in {"pending", "held"}
                    /\ f[e].state = "sent" => e.key \in cp
                    /\ f[e].state \in {"sent", "failed"} => e.key \in en
  BY <1>1, <1>4 DEF Fine, Sound
<1>6. Fine(es2, cp, en) /\ KeysOf(es2) = KeysOf(es)
  BY <1>4, <1>5, ImageFine
<1> QED BY <1>3, <1>6

-----------------------------------------------------------------------------
(* OutboxInv in parts that an action changes or leaves alone.              *)

PlainOK == cond \in Absent .. Critical /\ lock \in {0} \cup NHosts /\ token \in BOOLEAN /\ sender \in BOOLEAN
BookOK == book \in [Stores -> Alerts] /\ LiveHasId /\ opened \in Nat
BoxOK == box \in [Stores -> Boxes] /\ \A s \in Stores : Fine(box[s].entries, DOMAIN copies, ended)
PlaceOK(h, r, cp) ==
    /\ r \in Places /\ r.use \in {Cluster, h} /\ \A e \in r.plan : e = Entry(e.key)
    /\ \A q \in r.results : q.outcome = "sent" => q.key \in cp
AtOK == at \in [NHosts -> Places] /\ \A h \in NHosts : PlaceOK(h, at[h], DOMAIN copies)

LEMMA PartsOf == OutboxInv => PlainOK /\ BookOK /\ BoxOK /\ AtOK /\ MergedIsKept
<1> SUFFICES ASSUME OutboxInv PROVE PlainOK /\ BookOK /\ BoxOK /\ AtOK /\ MergedIsKept
  OBVIOUS
<1>1. BoxOK
  BY DEF OutboxInv, NoteTypeOK, SentWasDelivered, DoneIsKnown, BoxOK, Fine, Boxes
<1>2. AtOK
  BY DEF OutboxInv, NoteTypeOK, SentWasDelivered, AtOK, PlaceOK
<1>3. PlainOK /\ BookOK
  BY DEF OutboxInv, NoteTypeOK, PlainOK, BookOK
<1> QED BY <1>1, <1>2, <1>3 DEF OutboxInv

LEMMA PartsMake == PlainOK /\ BookOK /\ BoxOK /\ AtOK /\ MergedIsKept => OutboxInv
<1> SUFFICES ASSUME PlainOK, BookOK, BoxOK, AtOK, MergedIsKept PROVE OutboxInv
  OBVIOUS
<1>1. SentWasDelivered /\ DoneIsKnown
  BY DEF SentWasDelivered, DoneIsKnown, BoxOK, Fine, AtOK, PlaceOK
<1>2. NoteTypeOK
  <2>1. \A s \in Stores : Sound(box[s].entries)
    BY DEF BoxOK, Fine
  <2>2. \A h \in NHosts : at[h].use \in {Cluster, h} /\ \A e \in at[h].plan : e = Entry(e.key)
    BY DEF AtOK, PlaceOK
  <2> QED BY <2>1, <2>2 DEF NoteTypeOK, PlainOK, BookOK, BoxOK, AtOK
<1> QED BY <1>1, <1>2 DEF OutboxInv, BookOK

LEMMA PartsMakeNext == PlainOK' /\ BookOK' /\ BoxOK' /\ AtOK' /\ MergedIsKept' => OutboxInv'
  BY PartsMake, PTL

\* History only grows.
Grows == DOMAIN copies \subseteq DOMAIN copies' /\ ended \subseteq ended'
\* The keys of a store stay there, or their end is known.
KeysStay(s) == KeysOf(box[s].entries) \subseteq KeysOf(box'[s].entries) \cup ended'

\* A tick goes on at one host.
LEMMA AtFrame ==
  ASSUME AtOK, NEW h \in NHosts, NEW r, Goes(h, r), PlaceOK(h, r, DOMAIN copies'), Grows
  PROVE  AtOK' /\ at'[h] = r /\ \A g \in NHosts : g # h => at'[g] = at[g]
<1>1. at'[h] = r /\ \A g \in NHosts : g # h => at'[g] = at[g]
  BY DEF Goes, AtOK
<1>2. at' \in [NHosts -> Places]
  BY DEF Goes, AtOK, PlaceOK
<1>3. \A g \in NHosts : PlaceOK(g, at'[g], DOMAIN copies')
  BY <1>1 DEF AtOK, PlaceOK, Grows
<1> QED BY <1>1, <1>2, <1>3 DEF AtOK

LEMMA AtStays ==
  ASSUME AtOK, at' = at, Grows
  PROVE  AtOK'
  BY DEF AtOK, PlaceOK, Grows

\* One store's outbox changes.
LEMMA BoxFrame ==
  ASSUME BoxOK, NEW s \in Stores, NEW b \in Boxes, box' = [box EXCEPT ![s] = b],
         Fine(b.entries, DOMAIN copies', ended'), KeysOf(box[s].entries) \subseteq KeysOf(b.entries) \cup ended',
         Grows
  PROVE  BoxOK' /\ (\A g \in Stores : KeysStay(g)) /\ (\A g \in Stores : g # s => box'[g] = box[g])
<1>1. box'[s] = b /\ \A g \in Stores : g # s => box'[g] = box[g]
  BY DEF BoxOK
<1>2. \A g \in Stores : Fine(box[g].entries, DOMAIN copies', ended')
  BY FineGrows DEF BoxOK, Grows
<1>3. \A g \in Stores : Fine(box'[g].entries, DOMAIN copies', ended')
  BY <1>1, <1>2
<1>4. box' \in [Stores -> Boxes]
  BY DEF BoxOK
<1>5. \A g \in Stores : KeysStay(g)
  BY <1>1 DEF KeysStay
<1> QED BY <1>1, <1>3, <1>4, <1>5 DEF BoxOK

LEMMA BoxStays ==
  ASSUME BoxOK, box' = box, Grows
  PROVE  BoxOK' /\ \A g \in Stores : KeysStay(g)
<1>1. \A g \in Stores : Fine(box[g].entries, DOMAIN copies', ended')
  BY FineGrows DEF BoxOK, Grows
<1> QED BY <1>1 DEF BoxOK, KeysStay

\* Whoever is about to clear its store keeps its entries, and the cluster's
\* keys stay.
LEMMA KeptFrame ==
  ASSUME MergedIsKept, Grows, KeysStay(Cluster),
         \A g \in NHosts : at'[g].pc = "clear" => at[g].pc = "clear" /\ box'[g] = box[g]
  PROVE  MergedIsKept'
  BY DEF MergedIsKept, Grows, KeysStay

LEMMA StoreFacts == Cluster \in Stores /\ NHosts \subseteq Stores /\ Cluster \notin NHosts
  BY NoteAssumption DEF Stores, Cluster

LEMMA RestingOK == \A h, cp : PlaceOK(h, Resting, cp)
  BY DEF PlaceOK, Resting, Places, Steps, Stores, Cluster

-----------------------------------------------------------------------------
(* The alert: Book::evaluate and plan.                                     *)

\* An alert that is known and not resolved has an id, and is resolved only by
\* a host that may, when it sees no condition.
LEMMA EvaluatedOK ==
  ASSUME opened \in Nat, NEW b \in Alerts, b.state # "resolved" => b.id # 0,
         NEW c \in Absent .. Critical, NEW may \in BOOLEAN, NEW e, e = Evaluated(b, c, may)
  PROVE  /\ e.alert \in Alerts /\ (e.alert.state # "resolved" => e.alert.id # 0)
         /\ b.state # "resolved" /\ e.alert.state = "resolved" => may /\ c = Absent
<1> USE DEF Evaluated
<1>1. PICK a : a = Known(b)
  OBVIOUS
<1>2. NoAlert \in Alerts
  BY DEF NoAlert, Alerts, Never
<1>3. /\ a \in Alerts /\ (a.state # "resolved" => a.id # 0)
      /\ b.state # "resolved" => a.state # "resolved"
  <2>1. Known(b) = b \/ (b.state = "resolved" /\ Known(b) = NoAlert)
    BY DEF Known
  <2> QED BY <1>1, <1>2, <2>1 DEF NoAlert
<1>4. c \in Nat
  BY DEF Absent, Critical
<1>5. CASE c >= Warning /\ a.id = 0
  <2>1. Evaluated(b, c, may).alert = [NoAlert EXCEPT !.id = opened + 1, !.sev = c, !.state = "open", !.gen = 1]
    BY <1>1, <1>3, <1>5
  <2>2. PICK n : n = opened + 1
    OBVIOUS
  <2>3. n \in Nat /\ n # 0
    BY <2>2
  <2>4. Evaluated(b, c, may).alert = [NoAlert EXCEPT !.id = n, !.sev = c, !.state = "open", !.gen = 1]
    BY <2>1, <2>2
  <2> HIDE DEF Evaluated
  <2>5. [NoAlert EXCEPT !.id = n, !.sev = c, !.state = "open", !.gen = 1] \in Alerts
    BY <1>2, <1>4, <2>3 DEF Alerts
  <2>6. Evaluated(b, c, may).alert.id = n /\ Evaluated(b, c, may).alert.state = "open"
    BY <1>2, <2>4 DEF Alerts
  <2> QED BY <2>3, <2>4, <2>5, <2>6
<1>6. CASE c >= Warning /\ a.id # 0 /\ a.state = "resolved"
  <2>1. Evaluated(b, c, may).alert = [a EXCEPT !.state = "open", !.sev = c, !.gen = @ + 1, !.gone = 0]
    BY <1>1, <1>6
  <2>2. PICK g : g = a.gen + 1
    OBVIOUS
  <2>3. g \in Nat
    BY <1>3, <2>2 DEF Alerts
  <2>4. Evaluated(b, c, may).alert = [a EXCEPT !.state = "open", !.sev = c, !.gen = g, !.gone = 0]
    BY <2>1, <2>2
  <2> HIDE DEF Evaluated
  <2>5. [a EXCEPT !.state = "open", !.sev = c, !.gen = g, !.gone = 0] \in Alerts
    BY <1>3, <1>4, <2>3 DEF Alerts
  <2>6. Evaluated(b, c, may).alert.id = a.id /\ Evaluated(b, c, may).alert.state = "open"
    BY <1>3, <2>4 DEF Alerts
  <2> QED BY <1>6, <2>4, <2>5, <2>6
<1>7. CASE c >= Warning /\ a.state # "resolved"
  <2>1. PICK g : g = IF c > a.sev THEN a.gen + 1 ELSE a.gen
    OBVIOUS
  <2>2. g \in Nat
    BY <1>3, <2>1 DEF Alerts
  <2>3. Evaluated(b, c, may).alert = [a EXCEPT !.sev = c, !.gen = IF c > a.sev THEN @ + 1 ELSE @]
    <3>1. a.id # 0 /\ a.sev \in Nat /\ a.gen \in Nat
      BY <1>3, <1>7 DEF Alerts
    <3>2. Evaluated(b, c, may) =
            [alert |-> [a EXCEPT !.sev = c, !.gen = IF c > a.sev THEN @ + 1 ELSE @],
             change |-> IF c > a.sev THEN "escalated" ELSE "none"]
      BY <1>1, <1>4, <1>7, <3>1 DEF Absent, Warning
    <3> HIDE DEF Evaluated
    <3> QED BY <3>2
  <2>4. Evaluated(b, c, may).alert = [a EXCEPT !.sev = c, !.gen = g]
    BY <2>1, <2>3
  <2> HIDE DEF Evaluated
  <2>5. [a EXCEPT !.sev = c, !.gen = g] \in Alerts
    BY <1>3, <1>4, <2>2 DEF Alerts
  <2>6. Evaluated(b, c, may).alert.id = a.id /\ Evaluated(b, c, may).alert.state = a.state
    BY <1>3, <2>4 DEF Alerts
  <2> QED BY <1>3, <1>7, <2>4, <2>5, <2>6
<1>8. CASE may /\ c = Absent /\ a.state # "resolved"
  <2>1. Evaluated(b, c, may).alert = [a EXCEPT !.state = "resolved", !.gone = 0]
    BY <1>1, <1>8 DEF Absent, Warning
  <2> HIDE DEF Evaluated
  <2>2. [a EXCEPT !.state = "resolved", !.gone = 0] \in Alerts
    BY <1>3 DEF Alerts
  <2>3. Evaluated(b, c, may).alert.state = "resolved"
    BY <1>3, <2>1 DEF Alerts
  <2> QED BY <1>8, <2>1, <2>2, <2>3
<1>9. CASE ~(c >= Warning) /\ ~(may /\ c = Absent /\ a.state # "resolved")
  <2>1. Evaluated(b, c, may).alert = a
    BY <1>1, <1>9
  <2> HIDE DEF Evaluated
  <2> QED BY <1>3, <2>1
<1> HIDE DEF Evaluated
<1> QED BY <1>3, <1>5, <1>6, <1>7, <1>8, <1>9

\* Telling changes only when it was told.
LEMMA ToldOK ==
  ASSUME NEW a \in Alerts, NEW change
  PROVE  Told(a, change) \in Alerts /\ Told(a, change).id = a.id /\ Told(a, change).state = a.state
<1>1. [a EXCEPT !.told = 0] \in Alerts
  BY DEF Alerts
<1> QED BY <1>1 DEF Told, Alerts

\* What is planned is fresh.
LEMMA PlannedOK ==
  ASSUME NEW a \in Alerts, NEW change
  PROVE  \A e \in Planned(a, change) : e \in Entries /\ e = Entry(e.key)
<1>1. PICK k : k = [id |-> a.id, kind |-> KindOf(change), gen |-> a.gen]
  OBVIOUS
<1>2. k \in Keys
  BY <1>1 DEF Keys, KindOf, Kinds, Alerts
<1>3. \A e \in Planned(a, change) : e = Entry(k)
  BY <1>1 DEF Planned
<1> QED BY <1>2, <1>3, EntryType

-----------------------------------------------------------------------------
(* Every action keeps OutboxInv, and every message that waits.             *)

\* Of NoMessageVanishes, one step.
NoneVanishes ==
    \A s \in Stores : \A e \in WaitingEntries(box[s].entries) :
        e.key \in KeysOf(box'[s].entries) \cup KeysOf(box'[Cluster].entries) \cup ended'

LEMMA KeysStaySuffices == (\A s \in Stores : KeysStay(s)) => NoneVanishes
  BY DEF KeysStay, NoneVanishes, WaitingEntries, KeysOf

\* A tick that goes on without a write.
LEMMA QuietTick ==
  ASSUME OutboxInv, NEW h \in NHosts, NEW r, Goes(h, r), PlaceOK(h, r, DOMAIN copies'), r.pc # "clear",
         DOMAIN copies \subseteq DOMAIN copies',
         lock' \in {0} \cup NHosts, UNCHANGED <<cond, book, box, token, sender, opened, ended>>
  PROVE  OutboxInv' /\ NoneVanishes
<1>1. Grows
  BY DEF Grows
<1>2. PlainOK /\ BookOK /\ BoxOK /\ AtOK /\ MergedIsKept
  BY PartsOf
<1>3. PlainOK' /\ BookOK'
  BY <1>2 DEF PlainOK, BookOK, LiveHasId
<1>4. BoxOK' /\ \A g \in Stores : KeysStay(g)
  BY <1>1, <1>2, BoxStays
<1>5. AtOK' /\ at'[h] = r /\ \A g \in NHosts : g # h => at'[g] = at[g]
  BY <1>1, <1>2, AtFrame
<1>6. MergedIsKept'
  BY <1>1, <1>2, <1>4, <1>5, KeptFrame, StoreFacts
<1> QED BY <1>3, <1>4, <1>5, <1>6, PartsMakeNext, KeysStaySuffices

LEMMA TickStartInv == ASSUME OutboxInv, NEW h \in NHosts, TickStart(h) PROVE OutboxInv' /\ NoneVanishes
<1>1. PICK r : /\ Goes(h, r)
               /\ \/ r = [Resting EXCEPT !.pc = IF IsEmpty(h) THEN "evaluate" ELSE "merge", !.mine = duty = h]
                  \/ r = [Resting EXCEPT !.pc = "evaluate", !.use = h]
  BY DEF TickStart
<1>2. /\ r.pc \in {"evaluate", "merge"} /\ r.use \in {Cluster, h} /\ r.plan = {} /\ r.todo = {} /\ r.results = {}
      /\ r.token = TRUE /\ r.sender = TRUE
  BY <1>1 DEF Resting
<1>3. r.mine \in BOOLEAN
  BY <1>1 DEF Resting
<1>4. r \in Places
  BY <1>1, StoreFacts DEF Resting, Places, Steps, Stores
<1>5. PlaceOK(h, r, DOMAIN copies')
  BY <1>2, <1>4 DEF PlaceOK
<1> QED BY <1>1, <1>2, <1>5, QuietTick, PartsOf DEF TickStart, PlainOK

\* Notifier::merge_local takes the alert of the host's store, if any.
LEMMA MergeBookInv == ASSUME OutboxInv, NEW h \in NHosts, MergeBook(h) PROVE OutboxInv' /\ NoneVanishes
<1>1. PlainOK /\ BookOK /\ BoxOK /\ AtOK /\ MergedIsKept
  BY PartsOf
<1>2. Grows
  BY DEF MergeBook, Grows
<1>3. PICK r : r = [at[h] EXCEPT !.pc = "mergebox"]
  OBVIOUS
<1>4. PlaceOK(h, at[h], DOMAIN copies) /\ at[h] \in Places
  BY <1>1 DEF AtOK
<1>5. r.pc = "mergebox" /\ r.use = at[h].use /\ r.plan = at[h].plan /\ r.results = at[h].results
  BY <1>3, <1>4 DEF Places
<1>6. r \in Places
  BY <1>3, <1>4 DEF Places, Steps
<1>7. PlaceOK(h, r, DOMAIN copies')
  BY <1>4, <1>5, <1>6 DEF PlaceOK, MergeBook
<1>8. AtOK' /\ at'[h] = r /\ \A g \in NHosts : g # h => at'[g] = at[g]
  BY <1>1, <1>2, <1>3, <1>7, AtFrame DEF MergeBook
<1>9. BoxOK' /\ \A g \in Stores : KeysStay(g)
  BY <1>1, <1>2, BoxStays DEF MergeBook
<1>10. BookOK'
  BY <1>1, StoreFacts DEF MergeBook, BookOK, LiveHasId
<1>11. PlainOK'
  BY <1>1 DEF MergeBook, PlainOK, Locks
<1>12. MergedIsKept'
  BY <1>1, <1>2, <1>5, <1>8, <1>9, KeptFrame, StoreFacts DEF MergeBook
<1> QED BY <1>8, <1>9, <1>10, <1>11, <1>12, PartsMakeNext, KeysStaySuffices

\* After the merge the cluster's outbox has every key of the host's.
LEMMA MergeBoxInv == ASSUME OutboxInv, NEW h \in NHosts, MergeBox(h) PROVE OutboxInv' /\ NoneVanishes
<1>1. PlainOK /\ BookOK /\ BoxOK /\ AtOK /\ MergedIsKept
  BY PartsOf
<1>2. Grows
  BY DEF MergeBox, Grows
<1>3. PICK r : r = [at[h] EXCEPT !.pc = "clear"]
  OBVIOUS
<1>4. PlaceOK(h, at[h], DOMAIN copies) /\ at[h] \in Places
  BY <1>1 DEF AtOK
<1>5. r.pc = "clear" /\ r.use = at[h].use /\ r.plan = at[h].plan /\ r.results = at[h].results
  BY <1>3, <1>4 DEF Places
<1>6. r \in Places
  BY <1>3, <1>4 DEF Places, Steps
<1>7. PlaceOK(h, r, DOMAIN copies')
  BY <1>4, <1>5, <1>6 DEF PlaceOK, MergeBox
<1>8. AtOK' /\ at'[h] = r /\ \A g \in NHosts : g # h => at'[g] = at[g]
  BY <1>1, <1>2, <1>3, <1>7, AtFrame DEF MergeBox
<1>9. PICK es : es = Enqueue(box[Cluster].entries, box[h].entries)
  OBVIOUS
<1>10. /\ Fine(es, DOMAIN copies', ended')
       /\ KeysOf(box[Cluster].entries) \cup KeysOf(box[h].entries) \subseteq KeysOf(es)
  BY <1>1, <1>9, EnqueueFine, StoreFacts DEF BoxOK, MergeBox
<1>11. PICK b : b = [box[Cluster] EXCEPT !.entries = es]
  OBVIOUS
<1>12. box[Cluster] \in Boxes
  BY <1>1, StoreFacts DEF BoxOK
<1>13. b.entries = es
  BY <1>11, <1>12 DEF Boxes
<1>14. b \in Boxes
  BY <1>10, <1>11, <1>12 DEF Boxes, Fine
<1>15. box' = [box EXCEPT ![Cluster] = b]
  BY <1>9, <1>11 DEF MergeBox, Merged
<1>16. KeysOf(box[Cluster].entries) \subseteq KeysOf(b.entries) \cup ended' /\ Fine(b.entries, DOMAIN copies', ended')
  BY <1>10, <1>13
<1>17. BoxOK' /\ (\A g \in Stores : KeysStay(g)) /\ (\A g \in Stores : g # Cluster => box'[g] = box[g])
  BY <1>1, <1>2, <1>14, <1>15, <1>16, BoxFrame, StoreFacts
<1>18. PlainOK' /\ BookOK'
  BY <1>1 DEF MergeBox, PlainOK, BookOK, LiveHasId, Unlocks
<1>19. MergedIsKept'
  <2> SUFFICES ASSUME NEW g \in NHosts, at'[g].pc = "clear"
               PROVE  \A e \in WaitingEntries(box'[g].entries) :
                         e.key \in KeysOf(box'[Cluster].entries) \cup ended'
    BY DEF MergedIsKept
  <2>1. box'[g] = box[g] /\ box'[Cluster].entries = es
    BY <1>13, <1>15, <1>17, StoreFacts, <1>1 DEF BoxOK
  <2>2. CASE g = h
    BY <1>10, <2>1, <2>2 DEF WaitingEntries, KeysOf
  <2>3. CASE g # h
    <3>1. at[g].pc = "clear"
      BY <1>8, <2>3
    <3>2. KeysOf(box[Cluster].entries) \cup ended \subseteq KeysOf(es) \cup ended'
      BY <1>2, <1>10 DEF Grows
    <3> QED BY <1>1, <2>1, <3>1, <3>2 DEF MergedIsKept
  <2> QED BY <2>2, <2>3
<1> QED BY <1>8, <1>17, <1>18, <1>19, PartsMakeNext, KeysStaySuffices

\* A host clears its store: what waits there the cluster's store has.
LEMMA MergeClearInv == ASSUME OutboxInv, NEW h \in NHosts, MergeClear(h) PROVE OutboxInv' /\ NoneVanishes
<1>1. PlainOK /\ BookOK /\ BoxOK /\ AtOK /\ MergedIsKept
  BY PartsOf
<1>2. Grows
  BY DEF MergeClear, Grows
<1>3. PICK r : Goes(h, r) /\ (r = Resting \/ r = [Resting EXCEPT !.pc = "evaluate"])
  BY DEF MergeClear, Ends
<1>4. r.pc # "clear" /\ PlaceOK(h, r, DOMAIN copies')
  <2>1. r.pc \in {"idle", "evaluate"} /\ r.use = Cluster /\ r.plan = {} /\ r.results = {}
    BY <1>3 DEF Resting
  <2>2. r \in Places
    <3>1. Resting \in Places
      BY RestingOK DEF PlaceOK
    <3>2. [Resting EXCEPT !.pc = "evaluate"] \in Places
      BY <3>1 DEF Places, Steps
    <3> QED BY <1>3, <3>1, <3>2
  <2> QED BY <2>1, <2>2 DEF PlaceOK
<1>5. AtOK' /\ at'[h] = r /\ \A g \in NHosts : g # h => at'[g] = at[g]
  BY <1>1, <1>2, <1>3, <1>4, AtFrame
<1>6. EmptyBox \in Boxes /\ EmptyBox.entries = {}
  BY DEF EmptyBox, Boxes
<1>7. /\ box'[h] = EmptyBox /\ (\A g \in Stores : g # h => box'[g] = box[g])
      /\ box' \in [Stores -> Boxes] /\ box'[Cluster] = box[Cluster]
  BY <1>1, <1>6, StoreFacts DEF MergeClear, BoxOK
<1>8. Fine({}, DOMAIN copies', ended')
  BY DEF Fine, Sound
<1>9. \A g \in Stores : Fine(box[g].entries, DOMAIN copies', ended')
  BY <1>1 DEF MergeClear, BoxOK
<1>10. BoxOK'
  BY <1>6, <1>7, <1>8, <1>9 DEF BoxOK
<1>11. NoAlert \in Alerts /\ NoAlert.state = "resolved"
  BY DEF NoAlert, Alerts, Never
<1>12. BookOK'
  BY <1>1, <1>11, StoreFacts DEF MergeClear, BookOK, LiveHasId
<1>13. PlainOK'
  BY <1>1 DEF MergeClear, PlainOK
<1>14. KeysStay(Cluster)
  BY <1>7 DEF KeysStay
<1>15. MergedIsKept'
  BY <1>1, <1>2, <1>4, <1>5, <1>7, <1>14, KeptFrame, StoreFacts
<1>16. NoneVanishes
  <2> SUFFICES ASSUME NEW s \in Stores, NEW e \in WaitingEntries(box[s].entries)
               PROVE  e.key \in KeysOf(box'[s].entries) \cup KeysOf(box'[Cluster].entries) \cup ended'
    BY DEF NoneVanishes
  <2>1. CASE s = h
    BY <1>1, <1>7, <2>1 DEF MergeClear, MergedIsKept
  <2>2. CASE s # h
    BY <1>7, <2>2 DEF WaitingEntries, KeysOf
  <2> QED BY <2>1, <2>2
<1> QED BY <1>5, <1>10, <1>12, <1>13, <1>15, <1>16, PartsMakeNext

\* Notifier::evaluate writes the book; the messages it calls for are fresh.
LEMMA WriteBookInv == ASSUME OutboxInv, NEW h \in NHosts, WriteBook(h) PROVE OutboxInv' /\ NoneVanishes
<1>1. PlainOK /\ BookOK /\ BoxOK /\ AtOK /\ MergedIsKept
  BY PartsOf
<1>2. Grows
  BY DEF WriteBook, Grows
<1>3. PICK s : s = at[h].use
  OBVIOUS
<1>4. PlaceOK(h, at[h], DOMAIN copies) /\ at[h] \in Places /\ s \in Stores
  BY <1>1, <1>3 DEF AtOK, Places
<1>5. PICK c \in Sees(h) :
        LET e == Evaluated(book[s], c, MayResolve(h)) IN
        /\ opened' = IF e.change = "opened" THEN opened + 1 ELSE opened
        /\ book' = [book EXCEPT ![s] = Told(e.alert, e.change)]
        /\ IF Queued(s, Planned(e.alert, e.change)) = box[s].entries
           THEN Goes(h, [at[h] EXCEPT !.pc = "send"]) /\ UNCHANGED lock
           ELSE /\ Goes(h, [at[h] EXCEPT !.pc = "queue", !.plan = Planned(e.alert, e.change)])
                /\ Locks(h, s)
  BY <1>3 DEF WriteBook
<1>6. PICK e : e = Evaluated(book[s], c, MayResolve(h))
  OBVIOUS
<1>7. c \in Absent .. Critical /\ MayResolve(h) \in BOOLEAN
  BY <1>1 DEF PlainOK, Sees, MayResolve, Absent, Critical
<1>8. e.alert \in Alerts /\ (e.alert.state # "resolved" => e.alert.id # 0)
  <2>1. PICK b : b = book[s]
    OBVIOUS
  <2>2. PICK may : may = MayResolve(h)
    OBVIOUS
  <2>3. opened \in Nat /\ b \in Alerts /\ (b.state # "resolved" => b.id # 0)
    BY <1>1, <1>4, <2>1 DEF BookOK, LiveHasId
  <2>4. e = Evaluated(b, c, may) /\ may \in BOOLEAN
    BY <1>6, <1>7, <2>1, <2>2
  <2> QED BY <1>7, <2>3, <2>4, EvaluatedOK
<1>9. /\ Told(e.alert, e.change) \in Alerts
      /\ Told(e.alert, e.change).state # "resolved" => Told(e.alert, e.change).id # 0
  BY <1>8, ToldOK
<1>10. BookOK'
  <2>1. opened' \in Nat
    BY <1>1, <1>5 DEF BookOK
  <2>2. PICK t : t = Told(e.alert, e.change)
    OBVIOUS
  <2>3. book' = [book EXCEPT ![s] = t] /\ t \in Alerts /\ (t.state # "resolved" => t.id # 0)
    BY <1>5, <1>6, <1>9, <2>2
  <2> QED BY <1>1, <1>4, <2>1, <2>3 DEF BookOK, LiveHasId
<1>11. PICK pl : pl = Planned(e.alert, e.change)
  OBVIOUS
<1>12. \A x \in pl : x \in Entries /\ x = Entry(x.key)
  BY <1>8, <1>11, PlannedOK
<1>13. PICK r : /\ Goes(h, r)
                /\ \/ r = [at[h] EXCEPT !.pc = "send"]
                   \/ r = [at[h] EXCEPT !.pc = "queue", !.plan = pl]
  BY <1>5, <1>6, <1>11
<1>14. r.pc # "clear" /\ PlaceOK(h, r, DOMAIN copies')
  <2>1. /\ r.pc \in {"send", "queue"} /\ r.use = at[h].use /\ r.results = at[h].results
        /\ r.plan = at[h].plan \/ r.plan = pl
    BY <1>4, <1>13 DEF Places
  <2>2. [at[h] EXCEPT !.pc = "send"] \in Places
    BY <1>4 DEF Places, Steps
  <2>3. [at[h] EXCEPT !.pc = "queue", !.plan = pl] \in Places
    BY <1>4, <1>12 DEF Places, Steps
  <2> QED BY <1>4, <1>12, <1>13, <2>1, <2>2, <2>3 DEF PlaceOK, WriteBook
<1>15. AtOK' /\ at'[h] = r /\ \A g \in NHosts : g # h => at'[g] = at[g]
  BY <1>1, <1>2, <1>13, <1>14, AtFrame
<1>16. BoxOK' /\ \A g \in Stores : KeysStay(g)
  BY <1>1, <1>2, BoxStays DEF WriteBook
<1>17. PlainOK'
  BY <1>1, <1>5, <1>6 DEF WriteBook, PlainOK, Locks
<1>18. MergedIsKept'
  BY <1>1, <1>2, <1>14, <1>15, <1>16, KeptFrame, StoreFacts DEF WriteBook
<1> QED BY <1>10, <1>15, <1>16, <1>17, <1>18, PartsMakeNext, KeysStaySuffices

\* The outbox of the store in use takes the new messages and is pruned.
LEMMA WriteBoxInv == ASSUME OutboxInv, NEW h \in NHosts, WriteBox(h) PROVE OutboxInv' /\ NoneVanishes
<1>1. PlainOK /\ BookOK /\ BoxOK /\ AtOK /\ MergedIsKept
  BY PartsOf
<1>2. Grows
  BY DEF WriteBox, Grows
<1>3. PICK s : s = at[h].use
  OBVIOUS
<1>4. PlaceOK(h, at[h], DOMAIN copies) /\ at[h] \in Places /\ s \in Stores /\ s \in {Cluster, h}
  BY <1>1, <1>3 DEF AtOK, Places, PlaceOK
<1>5. PICK r : r = [at[h] EXCEPT !.pc = "send", !.plan = {}]
  OBVIOUS
<1>6. r.pc = "send" /\ r.use = at[h].use /\ r.plan = {} /\ r.results = at[h].results
  BY <1>4, <1>5 DEF Places
<1>7. r \in Places
  BY <1>4, <1>5 DEF Places, Steps
<1>8. PlaceOK(h, r, DOMAIN copies')
  BY <1>4, <1>6, <1>7 DEF PlaceOK, WriteBox
<1>9. AtOK' /\ at'[h] = r /\ \A g \in NHosts : g # h => at'[g] = at[g]
  BY <1>1, <1>2, <1>5, <1>8, AtFrame DEF WriteBox
<1>10. PICK es : es = Enqueue(box[s].entries, at[h].plan)
  OBVIOUS
<1>11. Fine(at[h].plan, DOMAIN copies, ended)
  BY <1>4, FreshFine DEF PlaceOK, Places
<1>12. Fine(es, DOMAIN copies, ended) /\ KeysOf(box[s].entries) \subseteq KeysOf(es)
  BY <1>1, <1>4, <1>10, <1>11, EnqueueFine DEF BoxOK
<1>13. PICK fs : fs = Prune(es)
  OBVIOUS
<1>14. Fine(fs, DOMAIN copies, ended) /\ KeysOf(es) \subseteq KeysOf(fs) \cup ended
  BY <1>12, <1>13, PruneFine
<1>15. PICK b : b = [box[s] EXCEPT !.entries = fs]
  OBVIOUS
<1>16. box[s] \in Boxes
  BY <1>1, <1>4 DEF BoxOK
<1>17. b.entries = fs
  BY <1>15, <1>16 DEF Boxes
<1>18. b \in Boxes
  BY <1>14, <1>15, <1>16 DEF Boxes, Fine
<1>19. box' = [box EXCEPT ![s] = b]
  BY <1>3, <1>10, <1>13, <1>15 DEF WriteBox, Queued
<1>20. KeysOf(box[s].entries) \subseteq KeysOf(b.entries) \cup ended' /\ Fine(b.entries, DOMAIN copies', ended')
  BY <1>12, <1>14, <1>17 DEF WriteBox
<1>21. BoxOK' /\ (\A g \in Stores : KeysStay(g)) /\ (\A g \in Stores : g # s => box'[g] = box[g])
  BY <1>1, <1>2, <1>4, <1>18, <1>19, <1>20, BoxFrame
<1>22. PlainOK' /\ BookOK'
  BY <1>1 DEF WriteBox, PlainOK, BookOK, LiveHasId, Unlocks
<1>23. \A g \in NHosts : at'[g].pc = "clear" => at[g].pc = "clear" /\ box'[g] = box[g]
  BY <1>4, <1>6, <1>9, <1>21, StoreFacts
<1>24. MergedIsKept'
  BY <1>1, <1>2, <1>21, <1>23, KeptFrame, StoreFacts
<1> QED BY <1>9, <1>21, <1>22, <1>24, PartsMakeNext, KeysStaySuffices

LEMMA UpdateFailsInv == ASSUME OutboxInv, NEW h \in NHosts, UpdateFails(h) PROVE OutboxInv' /\ NoneVanishes
<1>1. lock' \in {0} \cup NHosts
  BY PartsOf DEF PlainOK, UpdateFails
<1>2. Resting.pc # "clear"
  BY DEF Resting
<1> QED BY <1>1, <1>2, RestingOK, QuietTick DEF UpdateFails, Ends

LEMMA SendNothingInv == ASSUME OutboxInv, NEW h \in NHosts, SendNothing(h) PROVE OutboxInv' /\ NoneVanishes
<1>1. lock' \in {0} \cup NHosts
  BY PartsOf DEF PlainOK, SendNothing
<1>2. Resting.pc # "clear"
  BY DEF Resting
<1> QED BY <1>1, <1>2, RestingOK, QuietTick DEF SendNothing, Ends

LEMMA SendStartInv == ASSUME OutboxInv, NEW h \in NHosts, SendStart(h) PROVE OutboxInv' /\ NoneVanishes
<1>1. PlainOK /\ BoxOK /\ AtOK
  BY PartsOf
<1>2. PICK ks : ks = KeysOf(DueEntries(at[h].use))
  OBVIOUS
<1>3. PlaceOK(h, at[h], DOMAIN copies) /\ at[h] \in Places
  BY <1>1 DEF AtOK
<1>4. ks \in SUBSET Keys
  <2>1. box[at[h].use].entries \in SUBSET Entries
    BY <1>1, <1>3 DEF BoxOK, Boxes, Places
  <2> QED BY <1>2, <2>1 DEF KeysOf, DueEntries, WaitingEntries, Entries
<1>5. PICK r : r = [at[h] EXCEPT !.pc = "sending", !.todo = ks, !.token = token, !.sender = sender]
  OBVIOUS
<1>6. token \in BOOLEAN /\ sender \in BOOLEAN
  BY <1>1 DEF PlainOK
<1>7. r \in Places
  BY <1>3, <1>4, <1>5, <1>6, Zenon DEF Places, Steps
<1>8. r.pc = "sending" /\ r.use = at[h].use /\ r.plan = at[h].plan /\ r.results = at[h].results
  BY <1>3, <1>5 DEF Places
<1>9. PlaceOK(h, r, DOMAIN copies')
  BY <1>3, <1>7, <1>8 DEF PlaceOK, SendStart
<1>10. Goes(h, r)
  BY <1>2, <1>5 DEF SendStart
<1> QED BY <1>1, <1>8, <1>9, <1>10, QuietTick DEF SendStart, PlainOK

\* An answer: what is called sent is delivered with it.
LEMMA SendsInv ==
  ASSUME OutboxInv, NEW h \in NHosts, NEW k \in at[h].todo, Sends(h, k)
  PROVE  OutboxInv' /\ NoneVanishes
<1>1. PlainOK /\ BoxOK /\ AtOK
  BY PartsOf
<1>2. PICK o \in {"sent", "failed", "retry", "bad token", "sender refused", "template missing"} :
        /\ Answered(h, k, o) /\ (Delivered(k) \/ UNCHANGED copies)
        /\ o = "sent" => Delivered(k)
  BY DEF Sends
<1>3. DOMAIN copies \subseteq DOMAIN copies' /\ (o = "sent" => k \in DOMAIN copies')
  BY <1>2 DEF Delivered
<1>4. PlaceOK(h, at[h], DOMAIN copies) /\ at[h] \in Places /\ k \in Keys
  BY <1>1 DEF AtOK, Places
<1>5. PICK td : td = IF o \in {"bad token", "sender refused"} THEN {} ELSE at[h].todo \ {k}
  OBVIOUS
<1>6. PICK rs : rs = at[h].results \cup {[key |-> k, outcome |-> o]}
  OBVIOUS
<1>7. PICK r : r = [at[h] EXCEPT !.todo = td, !.results = rs]
  OBVIOUS
<1>8. Goes(h, r)
  BY <1>2, <1>5, <1>6, <1>7 DEF Answered
<1>9. td \in SUBSET Keys
  BY <1>4, <1>5 DEF Places
<1>10. rs \in SUBSET Results
  <2>1. [key |-> k, outcome |-> o] \in Results
    BY <1>2, <1>4 DEF Results
  <2> QED BY <1>4, <1>6, <2>1 DEF Places
<1>11. r \in Places
  BY <1>4, <1>7, <1>9, <1>10 DEF Places
<1>12. r.pc = at[h].pc /\ r.use = at[h].use /\ r.plan = at[h].plan /\ r.results = rs
  BY <1>4, <1>7 DEF Places
<1>13. \A q \in rs : q.outcome = "sent" => q.key \in DOMAIN copies'
  <2>1. PICK q0 : q0 = [key |-> k, outcome |-> o]
    OBVIOUS
  <2>2. q0.key = k /\ q0.outcome = o
    BY <2>1
  <2>3. \A q \in rs : q \in at[h].results \/ q = q0
    BY <1>6, <2>1
  <2> QED BY <1>3, <1>4, <2>2, <2>3 DEF PlaceOK
<1>14. PlaceOK(h, r, DOMAIN copies')
  BY <1>4, <1>11, <1>12, <1>13 DEF PlaceOK
<1>15. r.pc # "clear"
  BY <1>12 DEF Sends
<1> QED BY <1>1, <1>3, <1>8, <1>14, <1>15, QuietTick DEF Sends, PlainOK

\* What sending came to is recorded.
LEMMA RecordInv == ASSUME OutboxInv, NEW h \in NHosts, Record(h) PROVE OutboxInv' /\ NoneVanishes
<1>1. PlainOK /\ BookOK /\ BoxOK /\ AtOK /\ MergedIsKept
  BY PartsOf
<1>2. Grows /\ DOMAIN copies' = DOMAIN copies
  BY DEF Record, Grows
<1>3. PICK s : s = at[h].use
  OBVIOUS
<1>4. PlaceOK(h, at[h], DOMAIN copies) /\ at[h] \in Places /\ s \in Stores /\ s \in {Cluster, h}
  BY <1>1, <1>3 DEF AtOK, Places, PlaceOK
<1>5. AtOK' /\ at'[h] = Resting /\ \A g \in NHosts : g # h => at'[g] = at[g]
  BY <1>1, <1>2, RestingOK, AtFrame DEF Record, Ends
<1>6. PICK rs : rs = at[h].results
  OBVIOUS
<1>7. /\ rs \in SUBSET Results
      /\ \A r \in rs : r.outcome = "sent" => r.key \in DOMAIN copies'
      /\ \A r \in rs : r.outcome \in {"sent", "failed"} => r.key \in ended'
  <2>1. ended' = ended \cup {r.key : r \in {r \in rs : r.outcome \in {"sent", "failed"}}}
    BY <1>6 DEF Record
  <2> QED BY <1>2, <1>4, <1>6, <2>1 DEF PlaceOK, Places
<1>8. PICK es : es = {Recorded(e, rs) : e \in box[s].entries}
  OBVIOUS
<1>9. Fine(box[s].entries, DOMAIN copies', ended')
  BY <1>1, <1>2, <1>4, FineGrows DEF BoxOK, Grows
<1>10. Fine(es, DOMAIN copies', ended') /\ KeysOf(es) = KeysOf(box[s].entries)
  BY <1>7, <1>8, <1>9, RecordedFine
<1>11. PICK fs : fs = HeldBack(es, Came(h, "sender refused"))
  OBVIOUS
<1>12. Fine(fs, DOMAIN copies', ended') /\ KeysOf(fs) = KeysOf(es)
  BY <1>10, <1>11, HeldBackFine
<1>13. PICK u, v : /\ u = ((box[s].unauthorized /\ ~Came(h, "sent")) \/ Came(h, "bad token"))
                   /\ v = ((box[s].refused /\ ~Came(h, "sent")) \/ Came(h, "sender refused"))
  OBVIOUS
<1>14. u \in BOOLEAN /\ v \in BOOLEAN
  BY <1>13
<1>15. PICK b : b = [entries |-> fs, unauthorized |-> u, refused |-> v]
  OBVIOUS
<1>16. b.entries = fs
  BY <1>15
<1>17. b \in Boxes
  BY <1>12, <1>14, <1>15 DEF Boxes, Fine
<1>18. box' = [box EXCEPT ![s] = b]
  BY <1>3, <1>6, <1>8, <1>11, <1>13, <1>15 DEF Record
<1>19. KeysOf(box[s].entries) \subseteq KeysOf(b.entries) \cup ended' /\ Fine(b.entries, DOMAIN copies', ended')
  BY <1>10, <1>12, <1>16
<1>20. BoxOK' /\ (\A g \in Stores : KeysStay(g)) /\ (\A g \in Stores : g # s => box'[g] = box[g])
  BY <1>1, <1>2, <1>4, <1>17, <1>18, <1>19, BoxFrame
<1>21. PlainOK' /\ BookOK'
  BY <1>1 DEF Record, PlainOK, BookOK, LiveHasId
<1>22. \A g \in NHosts : at'[g].pc = "clear" => at[g].pc = "clear" /\ box'[g] = box[g]
  <2>1. Resting.pc # "clear"
    BY DEF Resting
  <2> QED BY <1>4, <1>5, <1>20, <2>1, StoreFacts
<1>23. MergedIsKept'
  BY <1>1, <1>2, <1>20, <1>22, KeptFrame, StoreFacts
<1> QED BY <1>5, <1>20, <1>21, <1>23, PartsMakeNext, KeysStaySuffices

LEMMA TicksInv == ASSUME OutboxInv, NEW h \in NHosts, Ticks(h) PROVE OutboxInv' /\ NoneVanishes
  BY TickStartInv, MergeBookInv, MergeBoxInv, MergeClearInv, WriteBookInv, WriteBoxInv, UpdateFailsInv,
     SendNothingInv, SendStartInv, SendsInv, RecordInv DEF Ticks

\* The Dashboard's calls change the cluster's store only.
LEMMA OperatorInv == ASSUME OutboxInv, Operator PROVE OutboxInv' /\ NoneVanishes
<1>1. PlainOK /\ BookOK /\ BoxOK /\ AtOK /\ MergedIsKept
  BY PartsOf
<1>2. Grows /\ at' = at /\ DOMAIN copies' = DOMAIN copies /\ ended' = ended
  BY DEF Operator, Acknowledge, SetToken, SaveSettings, CreateTemplates, Grows
<1>3. AtOK'
  BY <1>1, <1>2, AtStays
<1>4. PlainOK'
  <2>1. token' \in BOOLEAN /\ sender' \in BOOLEAN
    BY <1>1, Zenon DEF PlainOK, Operator, Acknowledge, SetToken, SaveSettings, CreateTemplates
  <2> QED BY <1>1, <2>1 DEF PlainOK, Operator, Acknowledge, SetToken, SaveSettings, CreateTemplates
<1>5. box[Cluster] \in Boxes /\ Fine(box[Cluster].entries, DOMAIN copies', ended')
  BY <1>1, <1>2, StoreFacts DEF BoxOK
<1>6. CASE Acknowledge
  <2>1. BoxOK' /\ \A g \in Stores : KeysStay(g)
    BY <1>1, <1>2, <1>6, BoxStays DEF Acknowledge
  <2>2. PICK a : a = [book[Cluster] EXCEPT !.state = "acknowledged"]
    OBVIOUS
  <2>3. book[Cluster] \in Alerts /\ book[Cluster].state = "open" /\ book[Cluster].id # 0
    BY <1>1, <1>6, StoreFacts DEF BookOK, LiveHasId, Acknowledge
  <2>4. a \in Alerts
    BY <2>2, <2>3 DEF Alerts
  <2>5. a.id # 0
    BY <2>2, <2>3 DEF Alerts
  <2>6. book' = [book EXCEPT ![Cluster] = a]
    BY <1>6, <2>2 DEF Acknowledge
  <2>7. BookOK'
    BY <1>1, <1>6, <2>4, <2>5, <2>6, StoreFacts DEF BookOK, LiveHasId, Acknowledge
  <2>8. MergedIsKept'
    BY <1>1, <1>2, <1>6, <2>1, KeptFrame, StoreFacts DEF Acknowledge
  <2> QED BY <1>3, <1>4, <2>1, <2>7, <2>8, PartsMakeNext, KeysStaySuffices
<1>7. ASSUME NEW b \in Boxes, box' = [box EXCEPT ![Cluster] = b], book' = book, opened' = opened,
             Fine(b.entries, DOMAIN copies', ended'), KeysOf(b.entries) = KeysOf(box[Cluster].entries)
      PROVE  OutboxInv' /\ NoneVanishes
  <2>1. BoxOK' /\ (\A g \in Stores : KeysStay(g)) /\ (\A g \in Stores : g # Cluster => box'[g] = box[g])
    BY <1>1, <1>2, <1>7, BoxFrame, StoreFacts
  <2>2. BookOK'
    BY <1>1, <1>7 DEF BookOK, LiveHasId
  <2>3. \A g \in NHosts : at'[g].pc = "clear" => at[g].pc = "clear" /\ box'[g] = box[g]
    BY <1>2, <2>1, StoreFacts
  <2>4. MergedIsKept'
    BY <1>1, <1>2, <2>1, <2>3, KeptFrame, StoreFacts
  <2> QED BY <1>3, <1>4, <2>1, <2>2, <2>4, PartsMakeNext, KeysStaySuffices
<1>8. CASE SetToken
  <2>1. PICK b : b = [box[Cluster] EXCEPT !.unauthorized = FALSE]
    OBVIOUS
  <2>2. b \in Boxes
    BY <1>5, <2>1 DEF Boxes
  <2>3. b.entries = box[Cluster].entries
    BY <1>5, <2>1 DEF Boxes
  <2>4. box' = [box EXCEPT ![Cluster] = b]
    BY <1>8, <2>1 DEF SetToken
  <2> QED BY <1>5, <1>7, <1>8, <2>2, <2>3, <2>4 DEF SetToken
<1>9. CASE SaveSettings
  <2>1. PICK es : es = Retried(box[Cluster].entries, box[Cluster].refused)
    OBVIOUS
  <2>2. Fine(es, DOMAIN copies', ended') /\ KeysOf(es) = KeysOf(box[Cluster].entries)
    BY <1>5, <2>1, RetriedFine
  <2>3. PICK b : b = [box[Cluster] EXCEPT !.refused = FALSE, !.entries = es]
    OBVIOUS
  <2>4. b \in Boxes
    BY <1>5, <2>2, <2>3 DEF Boxes, Fine
  <2>5. b.entries = es
    BY <1>5, <2>3 DEF Boxes
  <2>6. box' = [box EXCEPT ![Cluster] = b]
    BY <1>9, <2>1, <2>3 DEF SaveSettings
  <2> QED BY <1>7, <1>9, <2>2, <2>4, <2>5, <2>6 DEF SaveSettings
<1>10. CASE CreateTemplates
  <2>1. PICK es : es = Released(box[Cluster].entries)
    OBVIOUS
  <2>2. Fine(es, DOMAIN copies', ended') /\ KeysOf(es) = KeysOf(box[Cluster].entries)
    BY <1>5, <2>1, ReleasedFine
  <2>3. PICK b : b = [box[Cluster] EXCEPT !.entries = es]
    OBVIOUS
  <2>4. b \in Boxes
    BY <1>5, <2>2, <2>3 DEF Boxes, Fine
  <2>5. b.entries = es
    BY <1>5, <2>3 DEF Boxes
  <2>6. box' = [box EXCEPT ![Cluster] = b]
    BY <1>10, <2>1, <2>3 DEF CreateTemplates
  <2> QED BY <1>7, <1>10, <2>2, <2>4, <2>5, <2>6 DEF CreateTemplates
<1> QED BY <1>6, <1>8, <1>9, <1>10 DEF Operator

\* Time ages alerts and entries, and moves none.
LEMMA TimePassesInv == ASSUME OutboxInv, TimePasses PROVE OutboxInv' /\ NoneVanishes
<1>1. PlainOK /\ BookOK /\ BoxOK /\ AtOK /\ MergedIsKept
  BY PartsOf
<1>2. Grows /\ at' = at /\ DOMAIN copies' = DOMAIN copies /\ ended' = ended
  BY DEF TimePasses, Grows
<1>3. AtOK'
  BY <1>1, <1>2, AtStays
<1>4. PlainOK'
  <2>1. cond' \in Absent .. Critical
    <3>1. cond' = IF cond = Holding THEN Warning ELSE cond
      BY DEF TimePasses
    <3> QED BY <1>1, <3>1 DEF PlainOK, Absent, Holding, Warning, Critical
  <2> QED BY <1>1, <2>1 DEF PlainOK, TimePasses
<1>5. ASSUME NEW s \in Stores
      PROVE  book'[s] \in Alerts /\ (book'[s].state # "resolved" => book'[s].id # 0)
  <2>1. book[s] \in Alerts /\ (book[s].state # "resolved" => book[s].id # 0)
    BY <1>1 DEF BookOK, LiveHasId
  <2>2. CASE book[s] = NoAlert
    BY <2>1, <2>2 DEF TimePasses
  <2>3. CASE book[s] # NoAlert
    <3>1. PICK t : t = Older(book[s].told, Throttle - 1)
      OBVIOUS
    <3>2. PICK g : g = IF book[s].state = "resolved" THEN Older(book[s].gone, Reopen) ELSE 0
      OBVIOUS
    <3>3. t \in Nat \cup {Never} /\ g \in Nat
      BY <2>1, <3>1, <3>2 DEF Older, Alerts, Never
    <3>4. book'[s] = [book[s] EXCEPT !.told = t, !.gone = g]
      BY <2>3, <3>1, <3>2 DEF TimePasses
    <3>5. [book[s] EXCEPT !.told = t, !.gone = g] \in Alerts
      BY <2>1, <3>3 DEF Alerts
    <3>6. book'[s].state = book[s].state /\ book'[s].id = book[s].id
      BY <2>1, <3>4 DEF Alerts
    <3> QED BY <2>1, <3>4, <3>5, <3>6
  <2> QED BY <2>2, <2>3
<1>6. BookOK'
  <2>1. book' \in [Stores -> Alerts]
    BY <1>5 DEF TimePasses
  <2> QED BY <1>1, <1>5, <2>1 DEF BookOK, LiveHasId, TimePasses
<1>7. ASSUME NEW s \in Stores
      PROVE  /\ box'[s] \in Boxes /\ Fine(box'[s].entries, DOMAIN copies', ended')
             /\ KeysOf(box'[s].entries) = KeysOf(box[s].entries)
             /\ \A x \in WaitingEntries(box'[s].entries) :
                   \E e \in WaitingEntries(box[s].entries) : e.key = x.key
  <2>1. box[s] \in Boxes /\ Fine(box[s].entries, DOMAIN copies', ended')
    BY <1>1, <1>2 DEF BoxOK
  <2>2. PICK es : es = {Aged(e) : e \in box[s].entries}
    OBVIOUS
  <2>3. /\ Fine(es, DOMAIN copies', ended') /\ KeysOf(es) = KeysOf(box[s].entries)
        /\ \A e \in box[s].entries : Aged(e).key = e.key /\ Aged(e).state = e.state
    BY <2>1, <2>2, AgedFine
  <2>4. box'[s] = [box[s] EXCEPT !.entries = es]
    BY <2>2 DEF TimePasses
  <2>5. [box[s] EXCEPT !.entries = es] \in Boxes
    BY <2>1, <2>3 DEF Boxes, Fine
  <2>6. box'[s].entries = es
    BY <2>1, <2>4 DEF Boxes
  <2>7. \A x \in WaitingEntries(es) : \E e \in WaitingEntries(box[s].entries) : e.key = x.key
    BY <2>2, <2>3 DEF WaitingEntries
  <2> QED BY <2>3, <2>4, <2>5, <2>6, <2>7
<1>8. BoxOK'
  <2>1. box' \in [Stores -> Boxes]
    BY <1>7 DEF TimePasses
  <2> QED BY <1>7, <2>1 DEF BoxOK
<1>9. \A g \in Stores : KeysStay(g)
  BY <1>7 DEF KeysStay
<1>10. MergedIsKept'
  <2> SUFFICES ASSUME NEW g \in NHosts, at'[g].pc = "clear", NEW x \in WaitingEntries(box'[g].entries)
               PROVE  x.key \in KeysOf(box'[Cluster].entries) \cup ended'
    BY DEF MergedIsKept
  <2>1. PICK e \in WaitingEntries(box[g].entries) : e.key = x.key
    BY <1>7, StoreFacts
  <2>2. e.key \in KeysOf(box[Cluster].entries) \cup ended
    BY <1>1, <1>2 DEF MergedIsKept
  <2> QED BY <1>2, <1>7, <2>1, <2>2, StoreFacts
<1> QED BY <1>3, <1>4, <1>6, <1>8, <1>9, <1>10, PartsMakeNext, KeysStaySuffices

\* The condition, quorum and Postmark change no store.
LEMMA AroundInv ==
  ASSUME OutboxInv, CondChanges \/ QuorumChanges \/ QuorumReturns \/ PostmarkRefuses
  PROVE  OutboxInv' /\ NoneVanishes
<1>1. PlainOK /\ BookOK /\ BoxOK /\ AtOK /\ MergedIsKept
  BY PartsOf
<1>2. UNCHANGED <<book, box, lock, at, opened, copies, ended>>
  BY DEF CondChanges, QuorumChanges, QuorumReturns, PostmarkRefuses
<1>3. Grows
  BY <1>2 DEF Grows
<1>4. cond' \in Absent .. Critical
  BY <1>1 DEF PlainOK, CondChanges, QuorumChanges, QuorumReturns, PostmarkRefuses, Absent, Holding, Critical
<1>5. token' \in BOOLEAN /\ sender' \in BOOLEAN
  BY <1>1, Zenon DEF PlainOK, CondChanges, QuorumChanges, QuorumReturns, PostmarkRefuses
<1>6. PlainOK' /\ BookOK'
  BY <1>1, <1>2, <1>4, <1>5 DEF PlainOK, BookOK, LiveHasId
<1>7. BoxOK' /\ \A g \in Stores : KeysStay(g)
  BY <1>1, <1>2, <1>3, BoxStays
<1>8. AtOK'
  BY <1>1, <1>2, <1>3, AtStays
<1>9. MergedIsKept'
  BY <1>1, <1>2, <1>3, <1>7, KeptFrame, StoreFacts
<1> QED BY <1>6, <1>7, <1>8, <1>9, PartsMakeNext, KeysStaySuffices

LEMMA HostCrashesInv == ASSUME OutboxInv, NEW h \in NHosts, HostCrashes(h) PROVE OutboxInv' /\ NoneVanishes
<1>1. lock' \in {0} \cup NHosts
  BY PartsOf DEF PlainOK, HostCrashes
<1>2. Resting.pc # "clear"
  BY DEF Resting
<1> QED BY <1>1, <1>2, RestingOK, QuietTick DEF HostCrashes, Ends

LEMMA NextInv == ASSUME OutboxInv, [NoteNext]_noteVars PROVE OutboxInv' /\ NoneVanishes
<1>1. CASE NoteNext
  BY <1>1, TicksInv, HostCrashesInv, OperatorInv, AroundInv, TimePassesInv DEF NoteNext
<1>2. CASE UNCHANGED noteVars
  <2>1. PlainOK /\ BookOK /\ BoxOK /\ AtOK /\ MergedIsKept
    BY PartsOf
  <2>2. Grows
    BY <1>2 DEF noteVars, Grows
  <2>3. BoxOK' /\ \A g \in Stores : KeysStay(g)
    BY <1>2, <2>1, <2>2, BoxStays DEF noteVars
  <2>4. AtOK' /\ PlainOK' /\ BookOK'
    BY <1>2, <2>1, <2>2, AtStays DEF noteVars, PlainOK, BookOK, LiveHasId
  <2>5. MergedIsKept'
    BY <1>2, <2>1, <2>2, <2>3, KeptFrame, StoreFacts DEF noteVars
  <2> QED BY <2>3, <2>4, <2>5, PartsMakeNext, KeysStaySuffices
<1> QED BY <1>1, <1>2

LEMMA InitInv == NoteInit => OutboxInv
<1> SUFFICES ASSUME NoteInit PROVE OutboxInv
  OBVIOUS
<1>1. NoAlert \in Alerts /\ NoAlert.state = "resolved"
  BY DEF NoAlert, Alerts, Never
<1>2. BookOK
  BY <1>1 DEF NoteInit, BookOK, LiveHasId
<1>3. EmptyBox \in Boxes /\ EmptyBox.entries = {}
  BY DEF EmptyBox, Boxes
<1>4. Fine({}, DOMAIN copies, ended)
  BY DEF Fine, Sound
<1>5. BoxOK
  BY <1>3, <1>4 DEF NoteInit, BoxOK
<1>6. AtOK
  <2>1. \A h \in NHosts : PlaceOK(h, Resting, DOMAIN copies)
    BY RestingOK
  <2>2. Resting \in Places
    BY RestingOK DEF PlaceOK
  <2> QED BY <2>1, <2>2 DEF NoteInit, AtOK
<1>7. PlainOK
  BY DEF NoteInit, PlainOK, Absent, Holding, Critical
<1>8. MergedIsKept
  <2>1. Resting.pc # "clear"
    BY DEF Resting
  <2> QED BY <2>1 DEF NoteInit, MergedIsKept
<1> QED BY <1>2, <1>5, <1>6, <1>7, <1>8, PartsMake

\* The outbox is sound in every state, for any hosts, partitions and limits:
\* what it calls sent was delivered, what is done was recorded, and what a
\* host clears after Notifier::merge_local the cluster's store has or had.
THEOREM OutboxSound == NoteSpec => []OutboxInv
<1>1. OutboxInv /\ [NoteNext]_noteVars => OutboxInv'
  BY NextInv
<1> QED BY <1>1, InitInv, PTL DEF NoteSpec

\* A message that waits stays in its store until it is sent or given up, or
\* the cluster's store has it: Outbox::prune drops only what is done, and
\* Notifier::merge_local clears only what it has merged.
THEOREM MessagesStay == NoteSpec => NoMessageVanishes
<1> DEFINE A == \A s \in Stores : \A e \in WaitingEntries(box[s].entries) :
          e.key \in KeysOf(box'[s].entries) \cup KeysOf(box'[Cluster].entries) \cup ended'
<1>1. OutboxInv /\ [NoteNext]_noteVars => A
  BY NextInv DEF NoneVanishes
<1> QED BY <1>1, OutboxSound, PTL DEF NoteSpec, NoMessageVanishes

\* An alert is resolved only when the condition is gone: Book::evaluate may
\* not resolve on a host that has just started, and the others see the
\* condition as it is.
THEOREM RecoveriesAreTrue == NoteSpec => RecoveryIsTrue
<1> DEFINE A == \A s \in Stores :
          book[s].state # "resolved" /\ book'[s].state = "resolved" /\ book'[s].id = book[s].id
             => cond = Absent
<1>1. OutboxInv /\ [NoteNext]_noteVars => A
  <2> SUFFICES ASSUME OutboxInv, [NoteNext]_noteVars, NEW s \in Stores,
                      book[s].state # "resolved", book'[s].state = "resolved", book'[s].id = book[s].id
               PROVE  cond = Absent
    OBVIOUS
  <2>1. PlainOK /\ BookOK /\ AtOK
    BY PartsOf
  <2>2. book[s] \in Alerts /\ book[s].id # 0
    BY <2>1 DEF BookOK, LiveHasId
  <2>3. NoAlert.state = "resolved" /\ NoAlert.id = 0
    BY DEF NoAlert
  <2>4. ASSUME NEW h \in NHosts, WriteBook(h) PROVE cond = Absent
    <3>1. PICK t : t = at[h].use
      OBVIOUS
    <3>2. PICK c \in Sees(h) :
            LET e == Evaluated(book[t], c, MayResolve(h)) IN
            book' = [book EXCEPT ![t] = Told(e.alert, e.change)]
      BY <2>4, <3>1 DEF WriteBook
    <3>3. s = t
      BY <2>1, <3>2 DEF BookOK
    <3>4. PICK may : may = MayResolve(h)
      OBVIOUS
    <3>5. c \in Absent .. Critical /\ may \in BOOLEAN
      BY <2>1, <3>4 DEF PlainOK, Sees, MayResolve, Absent, Critical
    <3>6. PICK b : b = book[s]
      OBVIOUS
    <3>7. PICK e : e = Evaluated(b, c, may)
      OBVIOUS
    <3>8. e.alert \in Alerts /\ (e.alert.state = "resolved" => may /\ c = Absent)
      BY <2>1, <2>2, <3>5, <3>6, <3>7, EvaluatedOK DEF BookOK
    <3>9. book'[s] = Told(e.alert, e.change)
      BY <2>1, <3>2, <3>3, <3>4, <3>6, <3>7 DEF BookOK
    <3>10. e.alert.state = "resolved"
      BY <3>8, <3>9, ToldOK
    <3> QED BY <3>2, <3>4, <3>8, <3>10 DEF MayResolve, Sees
  <2>5. ASSUME NEW h \in NHosts, MergeBook(h) PROVE FALSE
    BY <2>1, <2>3, <2>5 DEF MergeBook, BookOK
  <2>6. ASSUME NEW h \in NHosts, MergeClear(h) PROVE FALSE
    BY <2>1, <2>2, <2>3, <2>6 DEF MergeClear, BookOK
  <2>7. ASSUME Acknowledge PROVE FALSE
    BY <2>1, <2>2, <2>7 DEF Acknowledge, BookOK, Alerts
  <2>8. ASSUME TimePasses PROVE FALSE
    BY <2>2, <2>3, <2>8 DEF TimePasses, Alerts
  <2>9. CASE book' = book
    BY <2>9
  <2>10. \/ \E h \in NHosts : WriteBook(h) \/ MergeBook(h) \/ MergeClear(h)
         \/ Acknowledge \/ TimePasses \/ book' = book
    BY ZenonT(30) DEF NoteNext, Ticks, TickStart, MergeBox, WriteBox, UpdateFails, SendNothing, SendStart, Sends, Record,
           HostCrashes, Operator, SetToken, SaveSettings, CreateTemplates, CondChanges, QuorumChanges,
           QuorumReturns, PostmarkRefuses, noteVars
  <2> QED BY <2>4, <2>5, <2>6, <2>7, <2>8, <2>9, <2>10
<1> QED BY <1>1, OutboxSound, PTL DEF NoteSpec, RecoveryIsTrue

-----------------------------------------------------------------------------
(* Sets of numbers.                                                        *)

\* A set of numbers between two bounds has a least and a greatest one.
LEMMA LeastOf ==
  ASSUME NEW lo \in Int, NEW hi \in Int, NEW S, S \subseteq lo .. hi, S # {}
  PROVE  \E x \in S : \A y \in S : x <= y
<1> DEFINE U == {n \in Nat : lo + n \in S}
<1>1. PICK y \in S : TRUE
  OBVIOUS
<1>2. y - lo \in U
  BY <1>1
<1>3. PICK n \in U : \A m \in U : <<m, n>> \notin OpToRel(<, Nat)
  <2>1. U \subseteq Nat /\ U # {}
    BY <1>2
  <2> HIDE DEF U
  <2> QED BY <2>1, NatLessThanWellFounded, WFMin
<1>4. \A m \in U : n <= m
  <2>1. U \subseteq Nat
    OBVIOUS
  <2> HIDE DEF U
  <2>2. n \in Nat /\ \A m \in U : ~(m < n)
    BY <1>3, <2>1 DEF OpToRel
  <2> QED BY <2>1, <2>2
<1>5. \A x \in S : x - lo \in U
  OBVIOUS
<1> QED BY <1>4, <1>5

LEMMA GreatestOf ==
  ASSUME NEW lo \in Int, NEW hi \in Int, NEW S, S \subseteq lo .. hi, S # {}
  PROVE  \E x \in S : \A y \in S : y <= x
<1> DEFINE T == {hi - x : x \in S}
<1>1. T \subseteq 0 .. (hi - lo) /\ T # {}
  <2>1. ASSUME NEW t \in T PROVE t \in 0 .. (hi - lo)
    <3>1. PICK x \in S : t = hi - x
      OBVIOUS
    <3>2. x \in Int /\ lo <= x /\ x <= hi
      OBVIOUS
    <3> QED
      BY <3>1, <3>2
  <2>2. PICK x \in S : TRUE
    OBVIOUS
  <2>3. hi - x \in T
    BY <2>2
  <2> QED
    BY <2>1, <2>3
<1>2. PICK m \in T : \A n \in T : m <= n
  <2>1. 0 \in Int /\ hi - lo \in Int
    OBVIOUS
  <2> HIDE DEF T
  <2> QED BY <1>1, <2>1, LeastOf, Zenon
<1>3. PICK x \in S : m = hi - x
  BY <1>2
<1>4. \A y \in S : hi - x <= hi - y
  BY <1>2, <1>3
<1> QED BY <1>3, <1>4

LEMMA MaxOf ==
  ASSUME NEW lo \in Int, NEW hi \in Int, NEW S, S \subseteq lo .. hi, S # {}
  PROVE  Max(S) \in S /\ \A y \in S : y <= Max(S)
<1>1. \E x \in S : \A y \in S : x >= y
  BY GreatestOf
<1>2. Max(S) \in S /\ \A y \in S : Max(S) >= y
  BY <1>1 DEF Max
<1> QED BY <1>2

LEMMA MinOf ==
  ASSUME NEW lo \in Int, NEW hi \in Int, NEW S, S \subseteq lo .. hi, S # {}
  PROVE  Min(S) \in S /\ \A y \in S : Min(S) <= y
<1>1. \E x \in S : \A y \in S : x <= y
  BY LeastOf
<1>2. Min(S) \in S /\ \A y \in S : Min(S) =< y
  BY <1>1 DEF Min
<1> QED BY <1>2

-----------------------------------------------------------------------------
(* The operators of the mesh.                                              *)

LEMMA MeshParams ==
  /\ MaxSeq \in Nat /\ MaxStreams \in Nat /\ Streams = 1 .. MaxStreams /\ 1 \in Streams
  /\ Records = Streams \X (1 .. MaxSeq) /\ Origin \in MHosts /\ NoRow = -1
  /\ Page \in Nat /\ Page > 0 /\ Keep \in Nat /\ Channel \in Nat
BY MeshAssumption DEF Streams, Records, NoRow

LEMMA LastSeqOf ==
  ASSUME NEW h, NEW s
  PROVE  LastSeq(h, s) \in SeqsOf(h, s) \cup {0} /\ \A q \in SeqsOf(h, s) : q <= LastSeq(h, s)
<1>1. SeqsOf(h, s) \cup {0} \subseteq 0 .. MaxSeq /\ SeqsOf(h, s) \cup {0} # {}
  BY MeshParams DEF SeqsOf
<1>2. PICK S : S = SeqsOf(h, s) \cup {0}
  OBVIOUS
<1>3. Max(S) \in S /\ \A y \in S : y <= Max(S)
  BY <1>1, <1>2, MaxOf, MeshParams
<1> QED BY <1>2, <1>3 DEF LastSeq

LEMMA HoldingFacts ==
  ASSUME NEW p, NEW s \in Streams, SeqsOf(p, s) # {}
  PROVE  /\ HoldingOf(p, s) \in Streams \X (1 .. MaxSeq) \X (1 .. MaxSeq)
         /\ HoldingOf(p, s)[1] = s
         /\ \A q \in SeqsOf(p, s) : HoldingOf(p, s)[2] <= q /\ q <= HoldingOf(p, s)[3]
<1>1. SeqsOf(p, s) \subseteq 1 .. MaxSeq
  BY DEF SeqsOf
<1>2. Min(SeqsOf(p, s)) \in SeqsOf(p, s) /\ \A y \in SeqsOf(p, s) : Min(SeqsOf(p, s)) <= y
  <2>1. PICK S : S = SeqsOf(p, s)
    OBVIOUS
  <2>2. Min(S) \in S /\ \A y \in S : Min(S) <= y
    BY <1>1, <2>1, MinOf, MeshParams
  <2> QED BY <2>1, <2>2
<1>3. LastSeq(p, s) \in 1 .. MaxSeq
  BY <1>1, <1>2, LastSeqOf, MeshParams
<1> QED BY <1>1, <1>2, <1>3, LastSeqOf DEF HoldingOf

\* A page has a number of records, none if it is empty.
LEMMA PageSize ==
  ASSUME NEW p, NEW s, NEW after, NEW upto
  PROVE  /\ Cardinality(Between(p, s, after, upto)) \in Nat
         /\ Between(p, s, after, upto) = {} => Cardinality(Between(p, s, after, upto)) = 0
<1> DEFINE Q == {x \in SeqsOf(p, s) : after < x /\ x <= upto}
           B == {<<s, q>> : q \in Q}
<1>1. IsFiniteSet(1 .. MaxSeq)
  BY FS_Interval, MeshParams
<1>2. IsFiniteSet(Q)
  <2>1. Q \subseteq 1 .. MaxSeq
    BY DEF SeqsOf
  <2> QED BY <1>1, <2>1, FS_Subset
<1>3. IsFiniteSet(B)
  <2>1. [q \in Q |-> <<s, q>>] \in Surjection(Q, B)
    BY DEF Surjection
  <2> HIDE DEF Q, B
  <2> QED BY <1>2, <2>1, FS_Surjection
<1>4. Cardinality(B) \in Nat
  <2> HIDE DEF B
  <2> QED BY <1>3, FS_CardinalityType
<1>5. B = {} => Cardinality(B) = 0
  <2> HIDE DEF B
  <2> QED BY FS_EmptySet
<1> QED BY <1>4, <1>5 DEF Between

LEMMA BetweenIs ==
  ASSUME NEW p, NEW s, NEW after, NEW upto, NEW r
  PROVE  r \in Between(p, s, after, upto) <=> r = <<s, r[2]>> /\ r[2] \in SeqsOf(p, s) /\ after < r[2] /\ r[2] <= upto
BY DEF Between

\* read_records leaves out only what comes after a full page.
LEMMA PageReads ==
  ASSUME NEW p, NEW s, NEW after \in Int, NEW upto \in Int, NEW n \in Int, n > 0, IsPage(p, s, after, upto, n),
         NEW q \in SeqsOf(p, s), after < q
  PROVE  \/ <<s, q>> \in Between(p, s, after, upto)
         \/ /\ q > upto /\ Between(p, s, after, upto) # {}
            /\ Cardinality(Between(p, s, after, upto)) = n
<1>1. q \in 1 .. MaxSeq
  BY DEF SeqsOf
<1>2. CASE q <= upto
  BY <1>2, BetweenIs
<1>3. CASE q > upto
  <2>1. ~(Cardinality(Between(p, s, after, upto)) < n) /\ Cardinality(Between(p, s, after, upto)) <= n
    BY <1>1, <1>3, MeshParams DEF IsPage
  <2> QED BY <1>3, <2>1, PageSize
<1> QED BY <1>1, <1>2, <1>3, MeshParams

\* missing_ranges: a number that is lacking lies in one of the ranges.
LEMMA RunsCover ==
  ASSUME NEW h, NEW s, NEW lo \in 1 .. MaxSeq, NEW hi \in 1 .. MaxSeq
  PROVE  /\ \A g \in Missing(h, s, lo, hi) : g \in (0 .. MaxSeq) \X (1 .. MaxSeq) /\ g[1] < g[2]
         /\ \A q \in Lack(h, s, lo, hi) : \E g \in Missing(h, s, lo, hi) : g[1] < q /\ q <= g[2]
<1> DEFINE lack == Lack(h, s, lo, hi)
           Run(x) == /\ x[1] <= x[2] /\ x[1] .. x[2] \subseteq lack
                     /\ {x[1] - 1, x[2] + 1} \cap lack = {}
<1>1. Missing(h, s, lo, hi) = {<<x[1] - 1, x[2]>> : x \in {y \in lack \X lack : Run(y)}}
  BY DEF Missing
<1>2. lack \subseteq lo .. hi /\ lack \subseteq 1 .. MaxSeq
  BY MeshParams DEF Lack
<1> HIDE DEF lack
<1>0. lo \in Int /\ hi \in Int
  BY MeshParams
<1>3. \A g \in Missing(h, s, lo, hi) : g \in (0 .. MaxSeq) \X (1 .. MaxSeq) /\ g[1] < g[2]
  <2>1. ASSUME NEW x \in lack \X lack, x[1] <= x[2]
        PROVE  <<x[1] - 1, x[2]>> \in (0 .. MaxSeq) \X (1 .. MaxSeq) /\ x[1] - 1 < x[2]
    <3>1. x[1] \in 1 .. MaxSeq /\ x[2] \in 1 .. MaxSeq
      BY <1>2
    <3>2. x[1] - 1 \in 0 .. MaxSeq /\ x[1] - 1 < x[2]
      BY <3>1, <2>1, MeshParams
    <3> QED BY <3>1, <3>2
  <2> QED BY <1>1, <2>1
<1>4. ASSUME NEW q \in lack PROVE \E g \in Missing(h, s, lo, hi) : g[1] < q /\ q <= g[2]
  <2> DEFINE A == {a \in lo .. hi : a <= q /\ a .. q \subseteq lack}
             B == {b \in lo .. hi : q <= b /\ q .. b \subseteq lack}
  <2>1. q \in A /\ q \in B /\ q \in lo .. hi
    BY <1>2
  <2>2. PICK a \in A : \A x \in A : a <= x
    <3>1. A \subseteq lo .. hi /\ A # {}
      BY <2>1
    <3> HIDE DEF A
    <3> QED BY <3>1, <1>0, LeastOf, Zenon
  <2>3. PICK b \in B : \A x \in B : x <= b
    <3>1. B \subseteq lo .. hi /\ B # {}
      BY <2>1
    <3> HIDE DEF B
    <3> QED BY <3>1, <1>0, GreatestOf, Zenon
  <2>4. a - 1 \notin lack
    <3> SUFFICES ASSUME a - 1 \in lack PROVE FALSE
      OBVIOUS
    <3>1. a - 1 \in lo .. hi /\ (a - 1) .. q \subseteq lack
      BY <1>2, <2>1, <2>2
    <3> QED BY <2>1, <2>2, <3>1
  <2>5. b + 1 \notin lack
    <3> SUFFICES ASSUME b + 1 \in lack PROVE FALSE
      OBVIOUS
    <3>1. b + 1 \in lo .. hi /\ q .. (b + 1) \subseteq lack
      BY <1>2, <2>1, <2>3
    <3> QED BY <2>1, <2>3, <3>1
  <2>6. a \in lack /\ b \in lack /\ a <= q /\ q <= b /\ a .. b \subseteq lack
    BY <1>2, <2>1, <2>2, <2>3
  <2>7. <<a, b>> \in {y \in lack \X lack : Run(y)}
    BY <2>4, <2>5, <2>6, <1>2
  <2>8. <<a - 1, b>> \in Missing(h, s, lo, hi)
    BY <1>1, <2>7
  <2> QED BY <2>1, <2>6, <2>8, <1>2
<1> QED BY <1>3, <1>4 DEF lack

-----------------------------------------------------------------------------
(* The database of a host.                                                 *)

\* What a step of a host that runs keeps: its database forgets nothing it has
\* held and takes nothing twice, and what is done with stays so.
Fresh(p) == ever[p] \subseteq ever'[p] /\ (rows'[p] \ rows[p]) \cap ever[p] = {}
Keeps(h) == \A r \in Records : r[2] <= chain[r[1]] /\ Done(h, r) => Done(h, r)'

LEMMA TypeFacts ==
  ASSUME MeshTypeOK, NEW h \in MHosts
  PROVE  /\ rows[h] \subseteq Records /\ ever[h] \subseteq Records
         /\ floors[h] \in [Streams -> {NoRow} \cup 0 .. MaxSeq] /\ keepFrom[h] \in Nat
         /\ link[h] \in Links /\ round[h] \in Rounds
BY DEF MeshTypeOK

LEMMA RecordParts ==
  ASSUME NEW r \in Records
  PROVE  r = <<r[1], r[2]>> /\ r[1] \in Streams /\ r[2] \in 1 .. MaxSeq /\ r[2] \in Int /\ r[2] >= 1
BY MeshParams

\* A record that was held and is not, was refused by what retention left.
LEMMA NotTwice ==
  ASSUME MeshTypeOK, RowsAreAppended, NEW h \in MHosts, NEW r \in ever[h] \ rows[h]
  PROVE  Refused(h, r)
BY DEF RowsAreAppended, Refused

\* insert_copies takes what is new and not refused, and refuses the rest.
LEMMA InsertedFacts ==
  ASSUME MeshTypeOK, RowsAreAppended, NEW h \in MHosts, NEW news \in SUBSET Records, Inserted(h, news)
  PROVE  /\ rows' \in [MHosts -> SUBSET Records] /\ ever' \in [MHosts -> SUBSET Records]
         /\ \A g \in MHosts : g # h => rows'[g] = rows[g] /\ ever'[g] = ever[g] /\ floors'[g] = floors[g]
         /\ rows[h] \subseteq rows'[h] /\ ever[h] \subseteq ever'[h]
         /\ rows'[h] \ rows[h] = ever'[h] \ ever[h] /\ rows'[h] \ rows[h] \subseteq news
         /\ (rows'[h] \ rows[h]) \cap ever[h] = {}
         /\ \A r \in news : r \in rows'[h] \/ Refused(h, r)
<1> DEFINE recs == {r \in news \ rows[h] : ~Refused(h, r)}
<1>1. rows' = [rows EXCEPT ![h] = rows[h] \cup recs] /\ ever' = [ever EXCEPT ![h] = ever[h] \cup recs]
  BY DEF Inserted
<1>2. recs \subseteq Records /\ recs \subseteq news /\ recs \cap rows[h] = {}
  OBVIOUS
<1>3. recs \cap ever[h] = {}
  BY NotTwice
<1>4. \A r \in news : r \in recs \/ r \in rows[h] \/ Refused(h, r)
  OBVIOUS
<1>5. \A g \in MHosts : g # h => floors'[g] = floors[g]
  BY DEF Inserted, MeshTypeOK
<1> HIDE DEF recs
<1> QED BY <1>1, <1>2, <1>3, <1>4, <1>5 DEF MeshTypeOK

\* It makes the row of a stream it did not know, at no floor.
LEMMA InsertedFloors ==
  ASSUME MeshTypeOK, NEW h \in MHosts, NEW news \in SUBSET Records, Inserted(h, news)
  PROVE  /\ floors' \in [MHosts -> [Streams -> {NoRow} \cup 0 .. MaxSeq]]
         /\ \A s \in Streams : \/ floors'[h][s] = floors[h][s]
                               \/ floors[h][s] = NoRow /\ floors'[h][s] = 0 /\ \E r \in news : r[1] = s
<1>1. PICK f : f = [s \in Streams |->
         IF floors[h][s] = NoRow /\ \E r \in {x \in news \ rows[h] : ~Refused(h, x)} : r[1] = s
           THEN 0 ELSE floors[h][s]]
  OBVIOUS
<1>2. floors' = [floors EXCEPT ![h] = f]
  BY <1>1 DEF Inserted
<1>3. \A s \in Streams : \/ f[s] = floors[h][s]
                         \/ floors[h][s] = NoRow /\ f[s] = 0 /\ \E r \in news : r[1] = s
  BY <1>1
<1>4. f \in [Streams -> {NoRow} \cup 0 .. MaxSeq]
  BY <1>1, MeshParams, TypeFacts
<1>5. floors'[h] = f
  BY <1>2 DEF MeshTypeOK
<1>6. floors' \in [MHosts -> [Streams -> {NoRow} \cup 0 .. MaxSeq]]
  BY <1>2, <1>4 DEF MeshTypeOK
<1> QED BY <1>3, <1>5, <1>6

\* What is not touched, at a host, is as it was.
LEMMA SameDb ==
  ASSUME NEW h, rows'[h] = rows[h], ever'[h] = ever[h], floors'[h] = floors[h], keepFrom'[h] = keepFrom[h],
         \A r \in Records : r[2] <= chain[r[1]] => stamps'[r] = stamps[r]
  PROVE  Fresh(h) /\ Keeps(h)
<1>1. Fresh(h)
  BY DEF Fresh
<1>2. Keeps(h)
  BY DEF Keeps, Done, Refused
<1> QED BY <1>1, <1>2

LEMMA InsertedKeeps ==
  ASSUME MeshTypeOK, RowsAreAppended, NEW h \in MHosts, NEW news \in SUBSET Records, Inserted(h, news),
         UNCHANGED <<keepFrom, stamps>>
  PROVE  \A g \in MHosts : Fresh(g) /\ Keeps(g)
<1>1. \A g \in MHosts : g # h => Fresh(g) /\ Keeps(g)
  BY InsertedFacts, SameDb
<1>2. Fresh(h)
  BY InsertedFacts DEF Fresh
<1>3. ASSUME NEW r \in Records, Done(h, r) PROVE Done(h, r)'
  <2>1. CASE r \in rows[h]
    BY <2>1, InsertedFacts DEF Done
  <2>2. CASE Refused(h, r)
    <3>1. r[2] >= 1 /\ r[2] \in Int /\ r[1] \in Streams
      BY RecordParts
    <3>2. floors[h][r[1]] \in {NoRow} \cup 0 .. MaxSeq
      BY <3>1, TypeFacts
    <3>3. floors'[h][r[1]] = floors[h][r[1]] \/ floors[h][r[1]] = NoRow
      BY <3>1, InsertedFloors
    <3>4. r[2] <= floors[h][r[1]] => floors'[h][r[1]] = floors[h][r[1]]
      BY <3>1, <3>2, <3>3, MeshParams
    <3> QED BY <2>2, <3>4 DEF Done, Refused
  <2> QED BY <1>3, <2>1, <2>2 DEF Done
<1>4. Keeps(h)
  BY <1>3 DEF Keeps
<1> QED BY <1>1, <1>2, <1>4

\* What Enforce leaves below the floor.
LEMMA FloorFacts ==
  ASSUME MeshTypeOK, NEW h \in MHosts, NEW s \in Streams, NEW cutoff
  PROVE  /\ Floor(h, s, cutoff) \in {NoRow} \cup 0 .. MaxSeq
         /\ floors[h][s] <= Floor(h, s, cutoff)
         /\ Floor(h, s, cutoff) = floors[h][s] \/ Floor(h, s, cutoff) \in SeqsOf(h, s)
<1>1. floors[h][s] \in {NoRow} \cup 0 .. MaxSeq
  BY TypeFacts
<1>2. PICK S : S = {floors[h][s]} \cup {q \in SeqsOf(h, s) : stamps[<<s, q>>] < cutoff}
  OBVIOUS
<1>3. S \subseteq -1 .. MaxSeq /\ S # {} /\ floors[h][s] \in S /\ S \subseteq {floors[h][s]} \cup SeqsOf(h, s)
  BY <1>1, <1>2, MeshParams DEF SeqsOf
<1>4. Max(S) \in S /\ \A y \in S : y <= Max(S)
  <2>1. -1 \in Int /\ MaxSeq \in Int
    BY MeshParams
  <2> QED BY <1>3, <2>1, MaxOf, Zenon
<1>5. Floor(h, s, cutoff) = Max(S)
  BY <1>2 DEF Floor
<1>6. SeqsOf(h, s) \subseteq 0 .. MaxSeq
  BY MeshParams DEF SeqsOf
<1> QED BY <1>1, <1>3, <1>4, <1>5, <1>6

\* retention::enforce raises floors and the cutoff; what it deletes is at or
\* below the floor.
LEMMA EnforceFacts ==
  ASSUME MeshTypeOK, RowsAreAppended, NEW h \in MHosts, Enforce(h)
  PROVE  /\ rows' \in [MHosts -> SUBSET Records] /\ keepFrom' \in [MHosts -> Nat]
         /\ floors' \in [MHosts -> [Streams -> {NoRow} \cup 0 .. MaxSeq]]
         /\ \A g \in MHosts : g # h => rows'[g] = rows[g] /\ floors'[g] = floors[g] /\ keepFrom'[g] = keepFrom[g]
         /\ rows'[h] \subseteq rows[h] /\ \A r \in rows[h] \ rows'[h] : r[2] <= floors'[h][r[1]]
         /\ \A s \in Streams : /\ floors[h][s] <= floors'[h][s]
                               /\ floors'[h][s] = floors[h][s] \/ floors'[h][s] \in SeqsOf(h, s)
         /\ keepFrom[h] <= keepFrom'[h] /\ (keepFrom'[h] = 0 \/ keepFrom'[h] <= mnow - Keep)
<1>1. PICK cutoff : cutoff = IF mnow > Keep THEN mnow - Keep ELSE 0
  OBVIOUS
<1>2. mnow \in Nat /\ Keep \in Nat
  BY MeshParams DEF MeshTypeOK
<1>3. cutoff \in Nat /\ (cutoff = 0 \/ cutoff <= mnow - Keep) /\ keepFrom[h] <= cutoff
  BY <1>1, <1>2, TypeFacts DEF RowsAreAppended
<1>4. keepFrom' = [keepFrom EXCEPT ![h] = cutoff]
  BY <1>1 DEF Enforce
<1>5. /\ keepFrom' \in [MHosts -> Nat] /\ keepFrom'[h] = cutoff
      /\ \A g \in MHosts : g # h => keepFrom'[g] = keepFrom[g]
  BY <1>3, <1>4 DEF MeshTypeOK
<1>6. CASE UNCHANGED <<rows, floors>>
  <2>1. \A s \in Streams : floors[h][s] \in Int
    BY TypeFacts, MeshParams
  <2> QED BY <1>3, <1>5, <1>6, <2>1 DEF MeshTypeOK
<1>7. CASE /\ rows' = [rows EXCEPT ![h] = {r \in rows[h] : r[2] > Floor(h, r[1], cutoff)}]
           /\ floors' = [floors EXCEPT ![h] = [s \in Streams |-> Floor(h, s, cutoff)]]
  <2>1. PICK kept : kept = {r \in rows[h] : r[2] > Floor(h, r[1], cutoff)}
    OBVIOUS
  <2>2. PICK f : f = [s \in Streams |-> Floor(h, s, cutoff)]
    OBVIOUS
  <2>3. rows' = [rows EXCEPT ![h] = kept] /\ floors' = [floors EXCEPT ![h] = f]
    BY <1>7, <2>1, <2>2
  <2>4. f \in [Streams -> {NoRow} \cup 0 .. MaxSeq] /\ \A s \in Streams : f[s] = Floor(h, s, cutoff)
    BY <2>2, FloorFacts
  <2>5. kept \subseteq rows[h] /\ kept \subseteq Records
    BY <2>1, TypeFacts
  <2>6. rows'[h] = kept /\ floors'[h] = f
    BY <2>3 DEF MeshTypeOK
  <2>7. \A r \in rows[h] \ kept : r[2] <= f[r[1]]
    <3> SUFFICES ASSUME NEW r \in rows[h], r \notin kept PROVE r[2] <= f[r[1]]
      OBVIOUS
    <3>1. r \in Records
      BY TypeFacts
    <3>2. r[1] \in Streams /\ r[2] \in Int
      BY <3>1, RecordParts
    <3>3. Floor(h, r[1], cutoff) \in Int
      BY <3>2, FloorFacts, MeshParams
    <3> QED BY <2>1, <2>4, <3>2, <3>3
  <2>8. \A s \in Streams : floors[h][s] <= f[s] /\ (f[s] = floors[h][s] \/ f[s] \in SeqsOf(h, s))
    BY <2>4, FloorFacts
  <2>9. rows' \in [MHosts -> SUBSET Records] /\ \A g \in MHosts : g # h => rows'[g] = rows[g]
    BY <2>3, <2>5 DEF MeshTypeOK
  <2>10. /\ floors' \in [MHosts -> [Streams -> {NoRow} \cup 0 .. MaxSeq]]
         /\ \A g \in MHosts : g # h => floors'[g] = floors[g]
    BY <2>3, <2>4 DEF MeshTypeOK
  <2> QED BY <1>3, <1>5, <2>5, <2>6, <2>7, <2>8, <2>9, <2>10
<1>8. UNCHANGED <<rows, floors>> \/
      (/\ rows' = [rows EXCEPT ![h] = {r \in rows[h] : r[2] > Floor(h, r[1], cutoff)}]
       /\ floors' = [floors EXCEPT ![h] = [s \in Streams |-> Floor(h, s, cutoff)]])
  BY <1>1 DEF Enforce
<1> QED BY <1>6, <1>7, <1>8

LEMMA EnforceKeeps ==
  ASSUME MeshTypeOK, RowsAreAppended, NEW h \in MHosts, Enforce(h)
  PROVE  \A g \in MHosts : Fresh(g) /\ Keeps(g)
<1>1. stamps' = stamps /\ ever' = ever
  BY DEF Enforce, originVars
<1>2. \A g \in MHosts : g # h => Fresh(g) /\ Keeps(g)
  BY <1>1, EnforceFacts, SameDb
<1>3. Fresh(h)
  BY <1>1, EnforceFacts DEF Fresh
<1>4. ASSUME NEW r \in Records, Done(h, r) PROVE Done(h, r)'
  <2>1. r[1] \in Streams /\ r[2] \in Int /\ stamps[r] \in Int
    BY RecordParts DEF MeshTypeOK
  <2>2. floors[h][r[1]] <= floors'[h][r[1]] /\ floors[h][r[1]] \in Int /\ floors'[h][r[1]] \in Int
    BY <2>1, EnforceFacts, TypeFacts, MeshParams
  <2>3. keepFrom[h] <= keepFrom'[h] /\ keepFrom[h] \in Int /\ keepFrom'[h] \in Int
    BY EnforceFacts, TypeFacts
  <2>4. CASE r \in rows[h]
    BY <2>4, EnforceFacts DEF Done, Refused
  <2>5. CASE Refused(h, r)
    BY <1>1, <2>1, <2>2, <2>3, <2>5 DEF Done, Refused
  <2> QED BY <1>4, <2>4, <2>5 DEF Done
<1>5. Keeps(h)
  BY <1>4 DEF Keeps
<1> QED BY <1>2, <1>3, <1>5

\* Store::append adds a record that no database has held.
LEMMA AppendFacts ==
  ASSUME MeshTypeOK, RowsAreAppended, NEW t \in 0 .. mnow, Append1(t)
  PROVE  \E r \in Records :
           /\ r = <<current, chain[current] + 1>> /\ chain[current] \in Nat
           /\ chain' = [chain EXCEPT ![current] = r[2]] /\ chain' \in [Streams -> 0 .. MaxSeq]
           /\ \A h \in MHosts : r \notin ever[h] /\ r \notin rows[h]
           /\ stamps' = [stamps EXCEPT ![r] = t] /\ stamps' \in [Records -> Nat]
           /\ rows' = [rows EXCEPT ![Origin] = rows[Origin] \cup {r}] /\ rows' \in [MHosts -> SUBSET Records]
           /\ ever' = [ever EXCEPT ![Origin] = ever[Origin] \cup {r}] /\ ever' \in [MHosts -> SUBSET Records]
<1>1. PICK r : r = <<current, chain[current] + 1>>
  OBVIOUS
<1>2. current \in Streams /\ chain[current] \in 0 .. MaxSeq /\ chain[current] < MaxSeq /\ mnow \in Nat
  BY DEF MeshTypeOK, Append1
<1>3. r \in Records /\ r[1] = current /\ r[2] = chain[current] + 1 /\ r[2] \in 0 .. MaxSeq /\ t \in Nat
  BY <1>1, <1>2, MeshParams
<1>4. \A h \in MHosts : r \notin ever[h] /\ r \notin rows[h]
  BY <1>2, <1>3, MeshParams DEF RowsAreAppended
<1>5. /\ chain' = [chain EXCEPT ![current] = r[2]] /\ stamps' = [stamps EXCEPT ![r] = t]
      /\ rows' = [rows EXCEPT ![Origin] = rows[Origin] \cup {r}]
      /\ ever' = [ever EXCEPT ![Origin] = ever[Origin] \cup {r}]
  BY <1>1, <1>3 DEF Append1
<1>6. chain' \in [Streams -> 0 .. MaxSeq]
  BY <1>3, <1>5 DEF MeshTypeOK
<1>7. stamps' \in [Records -> Nat]
  BY <1>3, <1>5 DEF MeshTypeOK
<1>8. rows[Origin] \cup {r} \subseteq Records /\ ever[Origin] \cup {r} \subseteq Records
  BY <1>3, TypeFacts, MeshParams
<1>9. rows' \in [MHosts -> SUBSET Records] /\ ever' \in [MHosts -> SUBSET Records]
  BY <1>5, <1>8 DEF MeshTypeOK
<1>10. chain[current] \in Nat
  BY <1>2, MeshParams
<1> QED BY <1>1, <1>3, <1>4, <1>5, <1>6, <1>7, <1>9, <1>10, Zenon

LEMMA AppendKeeps ==
  ASSUME MeshTypeOK, RowsAreAppended, NEW t \in 0 .. mnow, Append1(t)
  PROVE  \A g \in MHosts : Fresh(g) /\ Keeps(g)
<1>1. PICK r \in Records :
           /\ r = <<current, chain[current] + 1>> /\ chain[current] \in Nat
           /\ \A h \in MHosts : r \notin ever[h] /\ r \notin rows[h]
           /\ stamps' = [stamps EXCEPT ![r] = t]
           /\ rows' = [rows EXCEPT ![Origin] = rows[Origin] \cup {r}]
           /\ ever' = [ever EXCEPT ![Origin] = ever[Origin] \cup {r}]
  BY AppendFacts
<1>2. \A x \in Records : x[2] <= chain[x[1]] => x # r
  BY <1>1
<1>3. \A x \in Records : x[2] <= chain[x[1]] => stamps'[x] = stamps[x]
  BY <1>1, <1>2 DEF MeshTypeOK
<1>4. floors' = floors /\ keepFrom' = keepFrom
  BY DEF Append1
<1>5. \A g \in MHosts : ever[g] \subseteq ever'[g] /\ rows[g] \subseteq rows'[g] /\ rows'[g] \ rows[g] \subseteq {r}
  BY <1>1 DEF MeshTypeOK
<1>6. \A g \in MHosts : Fresh(g)
  BY <1>1, <1>5 DEF Fresh
<1>7. \A g \in MHosts : Keeps(g)
  BY <1>3, <1>4, <1>5 DEF Keeps, Done, Refused
<1> QED BY <1>6, <1>7

\* What may come with a round or a link.
Copies(news) == news \in SUBSET Records /\ \A r \in news : r[2] <= chain[r[1]]

LEMMA LinkFields ==
  ASSUME NEW h \in MHosts, MeshTypeOK
  PROVE  /\ link[h].on \in BOOLEAN /\ link[h].plan \subseteq Streams \X (0 .. MaxSeq)
         /\ link[h].last \in 0 .. MaxSeq /\ link[h].cursor \in 0 .. MaxSeq
         /\ link[h].wire \in Seq(SUBSET Records) /\ link[h].owed \subseteq Records
         /\ link[h].from \in ({0} \cup Streams) \X (0 .. MaxSeq)
BY TypeFacts DEF Links

LEMMA RoundFields ==
  ASSUME NEW h \in MHosts, MeshTypeOK
  PROVE  /\ round[h].on \in BOOLEAN /\ round[h].peer \in {0} \cup MHosts
         /\ round[h].todo \subseteq Streams \X (1 .. MaxSeq) \X (1 .. MaxSeq)
         /\ round[h].stream \in {0} \cup Streams /\ round[h].ranges \subseteq (0 .. MaxSeq) \X (1 .. MaxSeq)
         /\ round[h].seen \subseteq Records /\ round[h].cut \in BOOLEAN
BY TypeFacts DEF Rounds

LEMMA ReceivesInserts ==
  ASSUME MeshInv, NEW h \in MHosts, Receives(h)
  PROVE  \E r \in Head(link[h].wire) :
           /\ Copies({r}) /\ Inserted(h, {r}) /\ \A o \in Head(link[h].wire) : r[2] <= o[2]
           /\ LET l == link[h] IN
              Tell(h, Link(l.plan, l.last, l.cursor, Received(l.wire, r), l.owed, l.from))
<1>1. link[h].on /\ link[h].wire # <<>> /\ link[h].wire \in Seq(SUBSET Records)
  BY LinkFields DEF Receives, MeshInv
<1>2. PICK r \in Head(link[h].wire) :
           /\ Inserted(h, {r}) /\ \A o \in Head(link[h].wire) : r[2] <= o[2]
           /\ LET l == link[h] IN
              Tell(h, Link(l.plan, l.last, l.cursor, Received(l.wire, r), l.owed, l.from))
  BY DEF Receives
<1>3. Head(link[h].wire) = link[h].wire[1] /\ 1 \in 1 .. Len(link[h].wire) /\ link[h].wire[1] \in SUBSET Records
  BY <1>1
<1>4. r \in Records /\ InFlight(link[h], r)
  BY <1>2, <1>3 DEF InFlight
<1>5. r[2] <= chain[r[1]]
  BY <1>1, <1>4 DEF MeshInv, LinkAccounts
<1>6. Copies({r})
  BY <1>4, <1>5 DEF Copies
<1> QED BY <1>2, <1>6

\* The range a round fetches next, and what it read of it.
Fetch(h, range, upto, page) ==
    LET r == round[h]
        left == range[2] - range[1] IN
    /\ range \in r.ranges /\ upto \in {range[1]} \cup SeqsOf(r.peer, r.stream)
    /\ page = Between(r.peer, r.stream, range[1], upto)
    /\ IsPage(r.peer, r.stream, range[1], upto, IF left < Page THEN left ELSE Page)
LEMMA FetchSteps ==
  ASSUME MeshInv, NEW h \in MHosts, RoundFetches(h)
  PROVE  \E range, upto, page :
           LET r == round[h]
               rest == IF page = {} THEN {} ELSE Rest(range, upto) IN
           /\ Fetch(h, range, upto, page) /\ Copies({c \in page : c[2] <= range[2]})
           /\ \/ /\ Inserted(h, {c \in page : c[2] <= range[2]})
                 /\ Turns(h, Round(r.peer, r.todo, r.stream, (r.ranges \ {range}) \cup rest, r.seen, r.cut))
              \/ /\ UNCHANGED dbVars
                 /\ Turns(h, Round(r.peer, r.todo, r.stream, r.ranges \ {range}, r.seen, TRUE))
<1>0. PICK range \in round[h].ranges : \E upto \in {range[1]} \cup SeqsOf(round[h].peer, round[h].stream) :
           LET r == round[h]
               left == range[2] - range[1]
               page == Between(r.peer, r.stream, range[1], upto)
               rest == IF page = {} THEN {} ELSE Rest(range, upto) IN
           /\ IsPage(r.peer, r.stream, range[1], upto, IF left < Page THEN left ELSE Page)
           /\ \/ /\ Inserted(h, {c \in page : c[2] <= range[2]})
                 /\ Turns(h, Round(r.peer, r.todo, r.stream, (r.ranges \ {range}) \cup rest, r.seen, r.cut))
              \/ /\ UNCHANGED dbVars
                 /\ Turns(h, Round(r.peer, r.todo, r.stream, r.ranges \ {range}, r.seen, TRUE))
  BY Zenon DEF RoundFetches
<1>1. PICK upto \in {range[1]} \cup SeqsOf(round[h].peer, round[h].stream) :
           LET r == round[h]
               left == range[2] - range[1]
               page == Between(r.peer, r.stream, range[1], upto)
               rest == IF page = {} THEN {} ELSE Rest(range, upto) IN
           /\ IsPage(r.peer, r.stream, range[1], upto, IF left < Page THEN left ELSE Page)
           /\ \/ /\ Inserted(h, {c \in page : c[2] <= range[2]})
                 /\ Turns(h, Round(r.peer, r.todo, r.stream, (r.ranges \ {range}) \cup rest, r.seen, r.cut))
              \/ /\ UNCHANGED dbVars
                 /\ Turns(h, Round(r.peer, r.todo, r.stream, r.ranges \ {range}, r.seen, TRUE))
  BY <1>0
<1>2. PICK page : page = Between(round[h].peer, round[h].stream, range[1], upto)
  OBVIOUS
<1>3. Fetch(h, range, upto, page)
  BY <1>1, <1>2 DEF Fetch
<1>4. round[h].on /\ round[h].ranges # {}
  BY <1>0 DEF RoundFetches
<1>5. round[h].peer \in MHosts /\ round[h].stream \in Streams
  BY <1>4, RoundFields DEF MeshInv, RoundAccounts, MeshTypeOK
<1>6. page \subseteq rows[round[h].peer]
  BY <1>2 DEF Between, SeqsOf
<1>7. Copies(page)
  BY <1>5, <1>6, TypeFacts DEF Copies, MeshInv, RowsAreAppended
<1>8. Copies({c \in page : c[2] <= range[2]})
  BY <1>7 DEF Copies
<1> QED BY <1>1, <1>2, <1>3, <1>8, Zenon

\* What a step may do to the databases.
DbStep ==
    \/ \E t \in 0 .. mnow : Append1(t)
    \/ UNCHANGED <<dbVars, keepFrom, up, originVars>> /\ mnow' \in {mnow, mnow + 1}
    \/ \E h \in MHosts : Enforce(h)
    \/ \E h \in MHosts : \E news : /\ Copies(news) /\ Inserted(h, news)
                                     /\ UNCHANGED <<keepFrom, up, originVars, mnow>>
    \/ \E h \in MHosts : Stop(h) \/ Start(h) \/ Rebuild(h)
LEMMA DbSteps ==
  ASSUME MeshInv, [MeshNext]_meshVars
  PROVE  DbStep
<1>1. CASE UNCHANGED meshVars
  BY <1>1 DEF meshVars, dbVars, originVars, DbStep
<1>2. CASE \E t \in 0 .. mnow : Append1(t)
  BY <1>2 DEF DbStep
<1>3. CASE Passes
  BY <1>3 DEF Passes, DbStep
<1>4. ASSUME NEW h \in MHosts, Enforce(h) \/ Stop(h) \/ Start(h) \/ Rebuild(h) PROVE DbStep
  BY <1>4 DEF DbStep
<1>5. ASSUME NEW h \in MHosts, LinkOpens(h) \/ SendsPage(h) \/ SendsLive(h) \/ LinkBreaks(h) PROVE DbStep
  <2>1. LinkOnly
    BY <1>5 DEF LinkOpens, SendsPage, SendsLive, LinkBreaks
  <2> QED BY <2>1 DEF LinkOnly, DbStep
<1>6. ASSUME NEW h \in MHosts, Receives(h) PROVE DbStep
  <2>1. UNCHANGED <<keepFrom, up, originVars, mnow>>
    BY <1>6 DEF Receives, originVars
  <2>2. \E news : Copies(news) /\ Inserted(h, news)
    BY <1>6, ReceivesInserts
  <2> QED BY <2>1, <2>2 DEF DbStep
<1>7. ASSUME NEW h \in MHosts, (\E p \in MHosts : RoundStarts(h, p)) \/ RoundStream(h) \/ RoundEnds(h) PROVE DbStep
  <2>1. RoundOnly /\ UNCHANGED dbVars
    BY <1>7 DEF RoundStarts, RoundStream, RoundEnds
  <2> QED BY <2>1 DEF RoundOnly, DbStep
<1>8. ASSUME NEW h \in MHosts, RoundFetches(h) PROVE DbStep
  <2>1. UNCHANGED <<keepFrom, up, originVars, mnow>>
    BY <1>8 DEF RoundFetches, RoundOnly
  <2>2. UNCHANGED dbVars \/ \E news : Copies(news) /\ Inserted(h, news)
    <3>1. PICK range, upto, page :
             /\ Copies({c \in page : c[2] <= range[2]})
             /\ Inserted(h, {c \in page : c[2] <= range[2]}) \/ UNCHANGED dbVars
      BY <1>8, FetchSteps
    <3> QED BY <3>1
  <2> QED BY <2>1, <2>2 DEF DbStep
<1> QED BY <1>1, <1>2, <1>3, <1>4, <1>5, <1>6, <1>7, <1>8 DEF MeshNext

\* A database that runs forgets nothing and takes nothing twice.
LEMMA DbKeeps ==
  ASSUME MeshTypeOK, RowsAreAppended, DbStep
  PROVE  /\ \A h \in up : Fresh(h) /\ (h \in up' => Keeps(h))
         /\ \A h \in MHosts : (rows'[h] \ rows[h]) \cap ever[h] = {}
<1>0. up \subseteq MHosts
  BY DEF MeshTypeOK
<1> SUFFICES \/ \A h \in MHosts : Fresh(h) /\ Keeps(h)
             \/ /\ \A h \in MHosts : Fresh(h)
                /\ \A h \in up : h \in up' => Keeps(h)
             \/ /\ \A h \in up : Fresh(h) /\ Keeps(h)
                /\ \A h \in MHosts : (rows'[h] \ rows[h]) \cap ever[h] = {}
  BY <1>0 DEF Fresh
<1>1. CASE \E t \in 0 .. mnow : Append1(t)
  BY <1>1, AppendKeeps
<1>2. CASE UNCHANGED <<dbVars, keepFrom, up, originVars>>
  BY <1>2, SameDb DEF dbVars, originVars
<1>3. CASE \E h \in MHosts : Enforce(h)
  BY <1>3, EnforceKeeps
<1>4. ASSUME NEW h \in MHosts, NEW news, Copies(news), Inserted(h, news),
             UNCHANGED <<keepFrom, up, originVars, mnow>>
      PROVE  \A g \in MHosts : Fresh(g) /\ Keeps(g)
  BY <1>4, InsertedKeeps DEF Copies, originVars
<1>5. ASSUME NEW h \in MHosts, Stop(h)
      PROVE  /\ \A g \in MHosts : Fresh(g)
             /\ \A g \in up : g \in up' => Keeps(g)
  <2>1. UNCHANGED <<rows, floors, ever, stamps>> /\ up' = up \ {h} /\ keepFrom' = [keepFrom EXCEPT ![h] = 0]
    BY <1>5 DEF Stop, dbVars, originVars
  <2>2. \A g \in MHosts : Fresh(g)
    BY <2>1 DEF Fresh
  <2>3. \A g \in up : g \in up' => keepFrom'[g] = keepFrom[g]
    BY <1>0, <2>1 DEF MeshTypeOK
  <2> QED BY <2>1, <2>2, <2>3, SameDb
<1>6. ASSUME NEW h \in MHosts, Start(h)
      PROVE  /\ \A g \in MHosts : Fresh(g)
             /\ \A g \in up : g \in up' => Keeps(g)
  <2>1. UNCHANGED <<rows, ever, stamps, keepFrom>> /\ h \notin up
    BY <1>6 DEF Start
  <2>2. \A g \in MHosts : Fresh(g)
    BY <2>1 DEF Fresh
  <2>3. \A g \in MHosts : g # h => floors'[g] = floors[g]
    BY <1>6 DEF Start, MeshTypeOK
  <2> QED BY <1>0, <2>1, <2>2, <2>3, SameDb
<1>7. ASSUME NEW h \in MHosts, Rebuild(h)
      PROVE  /\ \A g \in up : Fresh(g) /\ Keeps(g)
             /\ \A g \in MHosts : (rows'[g] \ rows[g]) \cap ever[g] = {}
  <2>1. UNCHANGED <<stamps, keepFrom>> /\ h \notin up
    BY <1>7 DEF Rebuild, originVars
  <2>2. \A g \in MHosts : g # h => floors'[g] = floors[g] /\ rows'[g] = rows[g] /\ ever'[g] = ever[g]
    BY <1>7 DEF Rebuild, MeshTypeOK
  <2>3. rows'[h] = {}
    BY <1>7 DEF Rebuild, MeshTypeOK
  <2> QED BY <1>0, <2>1, <2>2, <2>3, SameDb
<1> QED BY <1>1, <1>2, <1>3, <1>4, <1>5, <1>6, <1>7 DEF DbStep

\* What was appended stays appended, and the streams stay as they began.
LEMMA ChainGrows ==
  ASSUME MeshTypeOK, RowsAreAppended, DbStep
  PROVE  /\ chain' \in [Streams -> 0 .. MaxSeq] /\ stamps' \in [Records -> Nat] /\ mnow' \in Nat
         /\ \A s \in Streams : chain[s] <= chain'[s]
         /\ up' \subseteq MHosts /\ current' \in Streams
         /\ started' \in Seq(Int) /\ Len(started') = current'
<1>0. \A s \in Streams : chain[s] \in Int
  BY MeshParams DEF MeshTypeOK
<1>1. CASE \E t \in 0 .. mnow : Append1(t)
  <2>1. PICK t \in 0 .. mnow : Append1(t)
    BY <1>1
  <2>2. PICK r \in Records :
          /\ r[2] = chain[current] + 1
          /\ chain' = [chain EXCEPT ![current] = r[2]] /\ chain' \in [Streams -> 0 .. MaxSeq]
          /\ stamps' \in [Records -> Nat]
    BY <2>1, AppendFacts
  <2>3. \A s \in Streams : chain[s] <= chain'[s]
    BY <1>0, <2>2 DEF MeshTypeOK
  <2> QED BY <2>1, <2>2, <2>3 DEF Append1, MeshTypeOK
<1>2. CASE UNCHANGED originVars /\ UNCHANGED up /\ mnow' \in {mnow, mnow + 1}
  BY <1>0, <1>2 DEF originVars, MeshTypeOK
<1>3. CASE \E h \in MHosts : Enforce(h)
  BY <1>0, <1>3 DEF Enforce, originVars, MeshTypeOK
<1>4. CASE \E h \in MHosts : Stop(h) \/ Rebuild(h)
  BY <1>0, <1>4 DEF Stop, Rebuild, originVars, MeshTypeOK
<1>5. ASSUME NEW h \in MHosts, Start(h)
      PROVE /\ UNCHANGED <<chain, stamps, mnow>> /\ up' \subseteq MHosts /\ current' \in Streams
            /\ started' \in Seq(Int) /\ Len(started') = current'
  <2>1. UNCHANGED <<chain, stamps, mnow>> /\ up' \subseteq MHosts
    BY <1>5 DEF Start, MeshTypeOK
  <2>2. current \in Streams /\ started \in Seq(Int) /\ Len(started) = current /\ current \in Int
    BY MeshParams DEF MeshTypeOK
  <2>3. CASE h = Origin
    <3>1. current < MaxStreams /\ current' = current + 1
      BY <1>5, <2>3 DEF Start
    <3>2. PICK t \in {2 * current + 2, 2 * current - 1} : started' = Append(started, t)
      BY <1>5, <2>3 DEF Start
    <3>3. t \in Int
      BY <2>2, <3>2
    <3> QED BY <2>1, <2>2, <3>1, <3>2, <3>3, MeshParams
  <2>4. CASE h # Origin
    BY <1>5, <2>1, <2>2, <2>4 DEF Start
  <2> QED BY <2>3, <2>4
<1>6. CASE \E h \in MHosts : Start(h)
  BY <1>0, <1>5, <1>6 DEF MeshTypeOK
<1> QED BY <1>1, <1>2, <1>3, <1>4, <1>6 DEF DbStep, originVars

LEMMA DbTypes ==
  ASSUME MeshTypeOK, RowsAreAppended, DbStep
  PROVE  /\ rows' \in [MHosts -> SUBSET Records] /\ ever' \in [MHosts -> SUBSET Records]
         /\ floors' \in [MHosts -> [Streams -> {NoRow} \cup 0 .. MaxSeq]] /\ keepFrom' \in [MHosts -> Nat]
<1>1. CASE \E t \in 0 .. mnow : Append1(t)
  BY <1>1, AppendFacts DEF Append1, MeshTypeOK
<1>2. CASE UNCHANGED <<dbVars, keepFrom>>
  BY <1>2 DEF dbVars, MeshTypeOK
<1>3. CASE \E h \in MHosts : Enforce(h)
  BY <1>3, EnforceFacts DEF Enforce, MeshTypeOK
<1>4. ASSUME NEW h \in MHosts, NEW news, Copies(news), Inserted(h, news), UNCHANGED keepFrom
      PROVE  /\ rows' \in [MHosts -> SUBSET Records] /\ ever' \in [MHosts -> SUBSET Records]
             /\ floors' \in [MHosts -> [Streams -> {NoRow} \cup 0 .. MaxSeq]] /\ keepFrom' \in [MHosts -> Nat]
  BY <1>4, InsertedFacts, InsertedFloors DEF Copies, MeshTypeOK
<1>5. CASE \E h \in MHosts : Stop(h)
  BY <1>5 DEF Stop, dbVars, MeshTypeOK
<1>6. ASSUME NEW h \in MHosts, Start(h) PROVE floors' \in [MHosts -> [Streams -> {NoRow} \cup 0 .. MaxSeq]]
  <2>1. CASE h = Origin
    <3>1. PICK f : f = [floors[h] EXCEPT ![current + 1] = 0]
      OBVIOUS
    <3>2. f \in [Streams -> {NoRow} \cup 0 .. MaxSeq]
      <4>1. PICK g : g = floors[h]
        OBVIOUS
      <4>2. g \in [Streams -> {NoRow} \cup 0 .. MaxSeq] /\ 0 \in {NoRow} \cup 0 .. MaxSeq
        BY <4>1, TypeFacts, MeshParams
      <4> QED BY <3>1, <4>1, <4>2
    <3>3. floors' = [floors EXCEPT ![h] = f]
      BY <1>6, <2>1, <3>1 DEF Start
    <3> QED BY <3>2, <3>3 DEF MeshTypeOK
  <2>2. CASE h # Origin
    BY <1>6, <2>2 DEF Start, MeshTypeOK
  <2> QED BY <2>1, <2>2
<1>7. CASE \E h \in MHosts : Start(h)
  BY <1>6, <1>7 DEF Start, MeshTypeOK
<1>8. ASSUME NEW h \in MHosts, Rebuild(h)
      PROVE  floors' \in [MHosts -> [Streams -> {NoRow} \cup 0 .. MaxSeq]]
  <2>1. PICK f : f = [s \in Streams |-> NoRow]
    OBVIOUS
  <2>2. f \in [Streams -> {NoRow} \cup 0 .. MaxSeq] /\ floors' = [floors EXCEPT ![h] = f]
    BY <1>8, <2>1 DEF Rebuild
  <2> QED BY <2>2 DEF MeshTypeOK
<1>9. CASE \E h \in MHosts : Rebuild(h)
  BY <1>8, <1>9 DEF Rebuild, MeshTypeOK
<1> QED BY <1>1, <1>2, <1>3, <1>4, <1>5, <1>7, <1>9 DEF DbStep

\* The parts of RowsAreAppended.
BegunStreams == /\ \A s \in Streams : s > current => chain[s] = 0
                /\ \A s \in 1 .. current : started[s] \in {2 * s, 2 * s - 3}
RowsOf(h) == /\ rows[h] \subseteq ever[h]
             /\ keepFrom[h] = 0 \/ keepFrom[h] <= mnow - Keep
             /\ \A r \in ever[h] : r[2] <= chain[r[1]]
             /\ \A r \in ever[h] \ rows[h] : r[2] <= floors[h][r[1]]
             /\ \A s \in Streams : floors[h][s] # NoRow => s <= current
OwnRows == Origin \in up => \A q \in 1 .. chain[current] : <<current, q>> \in ever[Origin]
LEMMA RowsParts ==
  RowsAreAppended <=> BegunStreams /\ OwnRows /\ \A h \in MHosts : RowsOf(h)
BY DEF RowsAreAppended, BegunStreams, OwnRows, RowsOf

LEMMA BegunNext ==
  ASSUME MeshTypeOK, RowsAreAppended, DbStep
  PROVE  BegunStreams'
<1>0. current \in Streams /\ current \in Int /\ chain \in [Streams -> 0 .. MaxSeq] /\ BegunStreams
  BY RowsParts, MeshParams DEF MeshTypeOK
<1>1. CASE \E t \in 0 .. mnow : Append1(t)
  <2>1. chain' = [chain EXCEPT ![current] = @ + 1] /\ UNCHANGED <<current, started>>
    BY <1>1 DEF Append1
  <2> QED BY <1>0, <2>1, MeshParams DEF BegunStreams
<1>2. CASE UNCHANGED originVars
  BY <1>0, <1>2 DEF originVars, BegunStreams
<1>3. CASE \E h \in MHosts : Enforce(h) \/ Stop(h) \/ Rebuild(h)
  BY <1>0, <1>3 DEF Enforce, Stop, Rebuild, originVars, BegunStreams
<1>4. ASSUME NEW h \in MHosts, Start(h) PROVE BegunStreams'
  <2>1. CASE h = Origin
    <3>1. current' = current + 1 /\ chain' = chain
      BY <1>4, <2>1 DEF Start
    <3>2. PICK t \in {2 * current + 2, 2 * current - 1} : started' = Append(started, t)
      BY <1>4, <2>1 DEF Start
    <3>3. started \in Seq(Int) /\ Len(started) = current /\ t \in Int
      BY <1>0, <3>2 DEF MeshTypeOK
    <3>4. \A s \in 1 .. current + 1 : started'[s] = IF s = current + 1 THEN t ELSE started[s]
      BY <1>0, <3>2, <3>3
    <3>5. \A s \in 1 .. current' : started'[s] \in {2 * s, 2 * s - 3}
      <4> SUFFICES ASSUME NEW s \in 1 .. current + 1 PROVE started'[s] \in {2 * s, 2 * s - 3}
        BY <3>1
      <4>1. CASE s = current + 1
        <5>1. started'[s] = t
          BY <3>4, <4>1
        <5>2. t = 2 * s \/ t = 2 * s - 3
          BY <1>0, <3>2, <4>1
        <5> QED BY <5>1, <5>2
      <4>2. CASE s # current + 1
        BY <1>0, <3>4, <4>2, MeshParams DEF BegunStreams
      <4> QED BY <4>1, <4>2
    <3>6. \A s \in Streams : s > current' => chain'[s] = 0
      BY <1>0, <3>1, MeshParams DEF BegunStreams
    <3> QED BY <3>5, <3>6 DEF BegunStreams
  <2>2. CASE h # Origin
    BY <1>0, <1>4, <2>2 DEF Start, BegunStreams
  <2> QED BY <2>1, <2>2
<1> QED BY <1>1, <1>2, <1>3, <1>4 DEF DbStep, originVars

LEMMA OwnNext ==
  ASSUME MeshTypeOK, RowsAreAppended, DbStep
  PROVE  OwnRows'
<1>0. current \in Streams /\ current \in Int /\ chain \in [Streams -> 0 .. MaxSeq] /\ BegunStreams /\ OwnRows
  BY RowsParts, MeshParams DEF MeshTypeOK
<1>1. CASE \E t \in 0 .. mnow : Append1(t)
  <2>1. PICK t \in 0 .. mnow : Append1(t)
    BY <1>1
  <2>2. PICK r \in Records :
           /\ r = <<current, chain[current] + 1>> /\ chain[current] \in Nat
           /\ chain' = [chain EXCEPT ![current] = r[2]]
           /\ ever' = [ever EXCEPT ![Origin] = ever[Origin] \cup {r}]
    BY <2>1, AppendFacts
  <2>3. UNCHANGED <<up, current>>
    BY <2>1 DEF Append1
  <2>4. chain'[current] = chain[current] + 1
    BY <1>0, <2>2
  <2>5. ever'[Origin] = ever[Origin] \cup {r}
    BY <2>2, MeshParams DEF MeshTypeOK
  <2>6. \A q \in 1 .. chain[current] + 1 : q \in 1 .. chain[current] \/ q = chain[current] + 1
    BY <2>2
  <2> QED BY <1>0, <2>2, <2>3, <2>4, <2>5, <2>6 DEF OwnRows
<1>2. ASSUME UNCHANGED originVars, up' = up, Origin \in up => ever[Origin] \subseteq ever'[Origin] PROVE OwnRows'
  BY <1>0, <1>2 DEF originVars, OwnRows
<1>3. CASE UNCHANGED <<dbVars, keepFrom, up, originVars>>
  BY <1>2, <1>3 DEF dbVars
<1>4. CASE \E h \in MHosts : Enforce(h)
  BY <1>2, <1>4 DEF Enforce
<1>5. ASSUME NEW h \in MHosts, NEW news, Copies(news), Inserted(h, news), UNCHANGED <<up, originVars>>
      PROVE  OwnRows'
  <2>1. ever[Origin] \subseteq ever'[Origin]
    BY <1>5, InsertedFacts, MeshParams DEF Copies
  <2> QED BY <1>2, <1>5, <2>1
<1>6. CASE \E h \in MHosts : Stop(h)
  BY <1>0, <1>6 DEF Stop, dbVars, originVars, OwnRows
<1>7. CASE \E h \in MHosts : Rebuild(h)
  <2>1. PICK h \in MHosts : Rebuild(h)
    BY <1>7
  <2>2. UNCHANGED originVars /\ up' = up /\ h \notin up /\ ever' = [ever EXCEPT ![h] = {}]
    BY <2>1 DEF Rebuild
  <2>3. Origin \in up => ever'[Origin] = ever[Origin]
    BY <2>2, MeshParams DEF MeshTypeOK
  <2> QED BY <1>2, <2>2, <2>3
<1>8. ASSUME NEW h \in MHosts, Start(h) PROVE OwnRows'
  <2>1. CASE h = Origin
    <3>1. current' = current + 1 /\ chain' = chain /\ current < MaxStreams
      BY <1>8, <2>1 DEF Start
    <3>2. chain'[current'] = 0
      BY <1>0, <3>1, MeshParams DEF BegunStreams
    <3> QED BY <3>2 DEF OwnRows
  <2>2. CASE h # Origin
    BY <1>0, <1>8, <2>2 DEF Start, OwnRows
  <2> QED BY <2>1, <2>2
<1> QED BY <1>1, <1>3, <1>4, <1>5, <1>6, <1>7, <1>8 DEF DbStep

\* The rows of a host that a step leaves alone.
LEMMA SameRows ==
  ASSUME MeshTypeOK, RowsAreAppended, DbStep, NEW h \in MHosts,
         rows'[h] = rows[h], ever'[h] = ever[h], floors'[h] = floors[h],
         keepFrom'[h] \in {0, keepFrom[h]}, mnow <= mnow', current <= current'
  PROVE  RowsOf(h)'
<1>1. RowsOf(h)
  BY RowsParts
<1>6. mnow' \in Nat /\ current' \in Int /\ \A s \in Streams : chain[s] <= chain'[s] /\ chain'[s] \in Int
  BY ChainGrows, MeshParams
<1>7. mnow \in Nat /\ keepFrom[h] \in Nat /\ Keep \in Nat /\ current \in Int
      /\ \A s \in Streams : chain[s] \in Int /\ s \in Int
  BY TypeFacts, MeshParams DEF MeshTypeOK
<1>2. \A r \in ever[h] : r[2] <= chain'[r[1]]
  <2> SUFFICES ASSUME NEW r \in ever[h] PROVE r[2] <= chain'[r[1]]
    OBVIOUS
  <2>1. r \in Records
    BY TypeFacts
  <2>2. r[1] \in Streams /\ r[2] \in Int
    BY <2>1, RecordParts
  <2>3. r[2] <= chain[r[1]] /\ chain[r[1]] <= chain'[r[1]] /\ chain[r[1]] \in Int /\ chain'[r[1]] \in Int
    BY <1>1, <1>6, <1>7, <2>2 DEF RowsOf
  <2> QED BY <2>2, <2>3
<1>3. keepFrom'[h] = 0 \/ keepFrom'[h] <= mnow' - Keep
  BY <1>1, <1>6, <1>7 DEF RowsOf
<1>4. \A s \in Streams : floors[h][s] # NoRow => s <= current'
  BY <1>1, <1>6, <1>7 DEF RowsOf
<1>5. rows'[h] \subseteq ever'[h] /\ \A r \in ever'[h] \ rows'[h] : r[2] <= floors'[h][r[1]]
  BY <1>1 DEF RowsOf
<1> QED BY <1>2, <1>3, <1>4, <1>5 DEF RowsOf

LEMMA InsertedRows ==
  ASSUME MeshTypeOK, RowsAreAppended, NEW h \in MHosts, NEW news, Copies(news), Inserted(h, news),
         UNCHANGED <<keepFrom, up, originVars, mnow>>
  PROVE  RowsOf(h)'
<1>0. RowsOf(h) /\ UNCHANGED <<keepFrom, mnow, current, chain>> /\ news \in SUBSET Records
  BY RowsParts DEF originVars, Copies
<1>1. rows'[h] \subseteq ever'[h] /\ \A r \in ever'[h] : r \in ever[h] \/ r \in news
  BY <1>0, InsertedFacts DEF RowsOf
<1>2. \A r \in ever'[h] : r[2] <= chain'[r[1]]
  BY <1>0, <1>1 DEF RowsOf, Copies
<1>3. \A r \in ever'[h] \ rows'[h] : r[2] <= floors'[h][r[1]]
  <2> SUFFICES ASSUME NEW r \in ever'[h] \ rows'[h] PROVE r[2] <= floors'[h][r[1]]
    OBVIOUS
  <2>1. r \in ever[h] \ rows[h] /\ r \in Records
    BY <1>0, InsertedFacts, TypeFacts
  <2>2. r[2] <= floors[h][r[1]] /\ r[1] \in Streams /\ r[2] \in Int /\ r[2] >= 1
    BY <1>0, <2>1, RecordParts DEF RowsOf
  <2>3. floors'[h][r[1]] = floors[h][r[1]] \/ floors[h][r[1]] = NoRow
    BY <1>0, <2>2, InsertedFloors
  <2> QED BY <2>2, <2>3, MeshParams
<1>4. ASSUME NEW s \in Streams, floors'[h][s] # NoRow PROVE s <= current'
  <2>1. CASE floors'[h][s] = floors[h][s]
    BY <1>0, <1>4, <2>1 DEF RowsOf
  <2>2. ASSUME NEW r \in news, r[1] = s PROVE s <= current
    <3>1. r[2] <= chain[s] /\ r[2] >= 1 /\ r[2] \in Int
      BY <1>0, <2>2, RecordParts DEF Copies
    <3>2. chain[s] # 0
      BY <3>1
    <3>3. ~(s > current)
      BY <3>2, RowsParts DEF BegunStreams
    <3> QED BY <3>3, MeshParams DEF MeshTypeOK
  <2> QED BY <1>0, <2>1, <2>2, InsertedFloors
<1> QED BY <1>0, <1>1, <1>2, <1>3, <1>4 DEF RowsOf

LEMMA EnforceRows ==
  ASSUME MeshTypeOK, RowsAreAppended, NEW h \in MHosts, Enforce(h)
  PROVE  RowsOf(h)'
<1>0. RowsOf(h) /\ UNCHANGED <<mnow, current, chain, ever>>
  BY RowsParts DEF originVars, Enforce
<1>1. rows'[h] \subseteq ever'[h] /\ \A r \in ever'[h] : r[2] <= chain'[r[1]]
  BY <1>0, EnforceFacts DEF RowsOf
<1>2. \A r \in ever'[h] \ rows'[h] : r[2] <= floors'[h][r[1]]
  <2> SUFFICES ASSUME NEW r \in ever[h] \ rows'[h] PROVE r[2] <= floors'[h][r[1]]
    BY <1>0
  <2>1. CASE r \in rows[h]
    BY <2>1, EnforceFacts
  <2>2. CASE r \notin rows[h]
    <3>1. r \in Records
      BY TypeFacts
    <3>2. r[1] \in Streams /\ r[2] \in Int /\ r[2] <= floors[h][r[1]]
      BY <1>0, <2>2, <3>1, RecordParts DEF RowsOf
    <3>3. floors[h][r[1]] <= floors'[h][r[1]] /\ floors[h][r[1]] \in Int /\ floors'[h][r[1]] \in Int
      BY <3>2, EnforceFacts, TypeFacts, MeshParams, SMTT(30)
    <3> QED BY <3>2, <3>3
  <2> QED BY <2>1, <2>2
<1>3. ASSUME NEW s \in Streams, floors'[h][s] # NoRow PROVE s <= current'
  <2>1. CASE floors'[h][s] = floors[h][s]
    BY <1>0, <1>3, <2>1 DEF RowsOf
  <2>2. CASE floors'[h][s] \in SeqsOf(h, s)
    <3>1. PICK q \in 1 .. MaxSeq : <<s, q>> \in rows[h]
      BY <2>2 DEF SeqsOf
    <3>2. q <= chain[s]
      BY <1>0, <3>1 DEF RowsOf
    <3>3. chain[s] # 0
      BY <3>1, <3>2
    <3>4. ~(s > current)
      BY <3>3, RowsParts DEF BegunStreams
    <3> QED BY <1>0, <3>4, MeshParams DEF MeshTypeOK
  <2> QED BY <2>1, <2>2, EnforceFacts
<1> QED BY <1>0, <1>1, <1>2, <1>3, EnforceFacts DEF RowsOf

LEMMA AppendRows ==
  ASSUME MeshTypeOK, RowsAreAppended, NEW t \in 0 .. mnow, Append1(t)
  PROVE  RowsOf(Origin)'
<1>0. RowsOf(Origin) /\ UNCHANGED <<floors, keepFrom, mnow, current>>
  BY RowsParts, MeshParams DEF Append1
<1>1. PICK r \in Records :
           /\ r = <<current, chain[current] + 1>> /\ chain[current] \in Nat
           /\ chain' = [chain EXCEPT ![current] = r[2]]
           /\ rows' = [rows EXCEPT ![Origin] = rows[Origin] \cup {r}]
           /\ ever' = [ever EXCEPT ![Origin] = ever[Origin] \cup {r}]
  BY AppendFacts
<1>2. rows'[Origin] = rows[Origin] \cup {r} /\ ever'[Origin] = ever[Origin] \cup {r}
  BY <1>1, MeshParams DEF MeshTypeOK
<1>3. r[1] = current /\ r[2] <= chain'[r[1]]
  BY <1>1, MeshParams DEF MeshTypeOK
<1>4. \A x \in ever[Origin] : x[2] <= chain'[x[1]]
  <2> SUFFICES ASSUME NEW x \in ever[Origin] PROVE x[2] <= chain'[x[1]]
    OBVIOUS
  <2>1. x \in Records /\ x[2] <= chain[x[1]]
    BY <1>0, TypeFacts, MeshParams DEF RowsOf
  <2>2. x[2] \in Int /\ x[1] \in Streams
    BY <2>1, RecordParts
  <2>3. chain'[x[1]] = chain[x[1]] \/ (x[1] = current /\ chain'[x[1]] = chain[current] + 1)
    BY <1>1, <2>2 DEF MeshTypeOK
  <2> QED BY <1>1, <2>1, <2>2, <2>3
<1>5. \A x \in ever'[Origin] \ rows'[Origin] : x \in ever[Origin] \ rows[Origin]
  BY <1>2
<1>6. \A x \in ever'[Origin] : x[2] <= chain'[x[1]]
  BY <1>2, <1>3, <1>4
<1>7. rows'[Origin] \subseteq ever'[Origin] /\ \A x \in ever'[Origin] \ rows'[Origin] : x[2] <= floors'[Origin][x[1]]
  BY <1>0, <1>2, <1>5 DEF RowsOf
<1> QED BY <1>0, <1>6, <1>7 DEF RowsOf

LEMMA StartRows ==
  ASSUME MeshTypeOK, RowsAreAppended, Start(Origin)
  PROVE  RowsOf(Origin)'
<1>0. /\ RowsOf(Origin) /\ BegunStreams /\ UNCHANGED <<rows, ever, keepFrom, mnow, chain>>
      /\ floors' = [floors EXCEPT ![Origin][current + 1] = 0] /\ current' = current + 1
  BY RowsParts, MeshParams DEF Start
<1>1. \A s \in Streams : floors'[Origin][s] = IF s = current + 1 THEN 0 ELSE floors[Origin][s]
  BY <1>0, TypeFacts, MeshParams DEF MeshTypeOK
<1>2. current \in Int /\ \A s \in Streams : s \in Int
  BY MeshParams DEF MeshTypeOK
<1>3. \A s \in Streams : floors'[Origin][s] # NoRow => s <= current'
  BY <1>0, <1>1, <1>2 DEF RowsOf
<1>4. \A r \in ever[Origin] \ rows[Origin] : r[2] <= floors'[Origin][r[1]]
  <2> SUFFICES ASSUME NEW r \in ever[Origin], r \notin rows[Origin] PROVE r[2] <= floors'[Origin][r[1]]
    OBVIOUS
  <2>1. r \in Records /\ r[2] <= chain[r[1]] /\ r[2] <= floors[Origin][r[1]]
    BY <1>0, TypeFacts, MeshParams DEF RowsOf
  <2>2. r[2] \in Int /\ r[2] >= 1 /\ r[1] \in Streams
    BY <2>1, RecordParts
  <2>3. r[1] # current + 1
    BY <1>0, <1>2, <2>1, <2>2 DEF BegunStreams
  <2> QED BY <1>1, <2>1, <2>2, <2>3
<1> QED BY <1>0, <1>3, <1>4 DEF RowsOf

LEMMA RowsNext ==
  ASSUME MeshTypeOK, RowsAreAppended, DbStep
  PROVE  RowsAreAppended'
<1> SUFFICES ASSUME NEW g \in MHosts PROVE RowsOf(g)'
  <2>1. BegunStreams' /\ OwnRows'
    BY BegunNext, OwnNext
  <2>2. RowsAreAppended' <=> BegunStreams' /\ OwnRows' /\ \A h \in MHosts : RowsOf(h)'
    BY DEF RowsAreAppended, BegunStreams, OwnRows, RowsOf
  <2> QED BY <2>1, <2>2
<1>0. mnow \in Nat /\ current \in Int
  BY MeshParams DEF MeshTypeOK
<1>1. CASE \E t \in 0 .. mnow : Append1(t)
  <2>1. PICK t \in 0 .. mnow : Append1(t)
    BY <1>1
  <2>2. CASE g = Origin
    BY <2>1, <2>2, AppendRows
  <2>3. CASE g # Origin
    <3>1. rows'[g] = rows[g] /\ ever'[g] = ever[g] /\ UNCHANGED <<floors, keepFrom, mnow, current>>
      BY <2>1, <2>3 DEF Append1, MeshTypeOK
    <3> QED BY <1>0, <3>1, SameRows
  <2> QED BY <2>2, <2>3
<1>2. CASE UNCHANGED <<dbVars, keepFrom, up, originVars>> /\ mnow' \in {mnow, mnow + 1}
  BY <1>0, <1>2, SameRows DEF dbVars, originVars
<1>3. ASSUME NEW h \in MHosts, Enforce(h) PROVE RowsOf(g)'
  <2>1. CASE g = h
    BY <1>3, <2>1, EnforceRows
  <2>2. CASE g # h
    <3>1. rows'[g] = rows[g] /\ floors'[g] = floors[g] /\ keepFrom'[g] = keepFrom[g]
      BY <1>3, <2>2, EnforceFacts
    <3>2. UNCHANGED <<ever, mnow, current>>
      BY <1>3 DEF Enforce, originVars
    <3> QED BY <1>0, <3>1, <3>2, SameRows
  <2> QED BY <2>1, <2>2
<1>4. ASSUME NEW h \in MHosts, NEW news, Copies(news), Inserted(h, news),
             UNCHANGED <<keepFrom, up, originVars, mnow>>
      PROVE  RowsOf(g)'
  <2>1. CASE g = h
    BY <1>4, <2>1, InsertedRows
  <2>2. CASE g # h
    <3>1. rows'[g] = rows[g] /\ ever'[g] = ever[g] /\ floors'[g] = floors[g]
      BY <1>4, <2>2, InsertedFacts DEF Copies
    <3>2. UNCHANGED <<keepFrom, mnow, current>>
      BY <1>4 DEF originVars
    <3> QED BY <1>0, <3>1, <3>2, SameRows
  <2> QED BY <2>1, <2>2
<1>5. ASSUME NEW h \in MHosts, Stop(h) PROVE RowsOf(g)'
  <2>1. UNCHANGED <<rows, floors, ever, mnow, current>> /\ keepFrom'[g] \in {0, keepFrom[g]}
    BY <1>5 DEF Stop, dbVars, originVars, MeshTypeOK
  <2> QED BY <1>0, <2>1, SameRows
<1>6. ASSUME NEW h \in MHosts, Start(h) PROVE RowsOf(g)'
  <2>1. CASE h = Origin /\ g = h
    BY <1>6, <2>1, StartRows
  <2>2. CASE h # Origin \/ g # h
    <3>1. UNCHANGED <<rows, ever, keepFrom, mnow>> /\ floors'[g] = floors[g] /\ current' \in {current, current + 1}
      BY <1>6, <2>2 DEF Start, MeshTypeOK
    <3> QED BY <1>0, <3>1, SameRows
  <2> QED BY <2>1, <2>2
<1>7. ASSUME NEW h \in MHosts, Rebuild(h) PROVE RowsOf(g)'
  <2>1. UNCHANGED <<keepFrom, mnow, current, chain>>
    BY <1>7 DEF Rebuild, originVars
  <2>2. CASE g = h
    <3>1. rows'[h] = {} /\ ever'[h] = {} /\ \A s \in Streams : floors'[h][s] = NoRow
      BY <1>7 DEF Rebuild, MeshTypeOK
    <3>2. RowsOf(h)
      BY RowsParts
    <3> QED BY <2>1, <2>2, <3>1, <3>2 DEF RowsOf
  <2>3. CASE g # h
    <3>1. rows'[g] = rows[g] /\ ever'[g] = ever[g] /\ floors'[g] = floors[g]
      BY <1>7, <2>3 DEF Rebuild, MeshTypeOK
    <3> QED BY <1>0, <2>1, <3>1, SameRows
  <2> QED BY <2>2, <2>3
<1> QED BY <1>1, <1>2, <1>3, <1>4, <1>5, <1>6, <1>7 DEF DbStep

-----------------------------------------------------------------------------
(* The rounds of catch-up.                                                 *)

\* What a round keeps through a step that is not its own.
LEMMA RoundFrame ==
  ASSUME MeshTypeOK, RowsAreAppended, NEW h \in MHosts, NEW w \in Rounds, RoundAccounts(h, w),
         w.on => /\ {h, w.peer} \subseteq up' /\ Fresh(w.peer) /\ Keeps(h)
                 /\ current' = current \/ h # Origin
  PROVE  RoundAccounts(h, w)'
<1> SUFFICES ASSUME w.on
    PROVE  /\ {h, w.peer} \subseteq up' /\ w.seen \subseteq ever'[w.peer]
           /\ \A range \in w.ranges : range[1] < range[2]
           /\ w.ranges # {} => w.stream # 0
           /\ ~w.cut => \A r \in w.seen \cap rows'[w.peer] :
                            Done(h, r)' \/ (h = Origin /\ r[1] = current') \/ Ahead(w, r)
  BY DEF RoundAccounts, Ahead
<1>1. /\ {h, w.peer} \subseteq up /\ w.seen \subseteq ever[w.peer]
      /\ \A range \in w.ranges : range[1] < range[2]
      /\ w.ranges # {} => w.stream # 0
      /\ ~w.cut => \A r \in w.seen \cap rows[w.peer] :
                            Done(h, r) \/ (h = Origin /\ r[1] = current) \/ Ahead(w, r)
  BY DEF RoundAccounts
<1>2. w.peer \in MHosts /\ w.seen \subseteq Records
  BY <1>1 DEF MeshTypeOK, Rounds
<1>3. w.seen \subseteq ever'[w.peer] /\ w.seen \cap rows'[w.peer] \subseteq rows[w.peer]
  BY <1>1 DEF Fresh
<1>4. ASSUME ~w.cut, NEW r \in w.seen \cap rows'[w.peer]
      PROVE  Done(h, r)' \/ (h = Origin /\ r[1] = current') \/ Ahead(w, r)
  <2>1. r \in w.seen \cap rows[w.peer] /\ r \in Records /\ r \in ever[w.peer]
    BY <1>1, <1>2, <1>3
  <2>2. r[2] <= chain[r[1]]
    BY <1>2, <2>1 DEF RowsAreAppended
  <2> QED BY <1>1, <1>4, <2>1, <2>2 DEF Keeps
<1> QED BY <1>1, <1>3, <1>4

LEMMA RoundSame ==
  ASSUME NEW h, NEW w, RoundAccounts(h, w), UNCHANGED <<dbVars, keepFrom, up, originVars>>
  PROVE  RoundAccounts(h, w)'
BY DEF RoundAccounts, Ahead, Done, Refused, dbVars, originVars

LEMMA RoundMake ==
  ASSUME NEW peer, NEW todo, NEW stream, NEW ranges, NEW seen, NEW cut
  PROVE  LET w == Round(peer, todo, stream, ranges, seen, cut) IN
         /\ w.on /\ w.peer = peer /\ w.todo = todo /\ w.stream = stream /\ w.ranges = ranges
         /\ w.seen = seen /\ w.cut = cut
         /\ (/\ peer \in {0} \cup MHosts /\ todo \subseteq Streams \X (1 .. MaxSeq) \X (1 .. MaxSeq)
             /\ stream \in {0} \cup Streams /\ ranges \subseteq (0 .. MaxSeq) \X (1 .. MaxSeq)
             /\ seen \subseteq Records /\ cut \in BOOLEAN) => w \in Rounds
BY DEF Round, Rounds

LEMMA NoRoundFacts == NoRound \in Rounds /\ ~NoRound.on /\ \A h : RoundAccounts(h, NoRound)
<1>1. NoRound \in Rounds /\ ~NoRound.on
  BY DEF NoRound, Round, Rounds
<1> QED BY <1>1 DEF RoundAccounts

\* The step of a round gives a round that accounts for what it began with.
Turned(h) == \E w \in Rounds : round' = [round EXCEPT ![h] = w] /\ RoundAccounts(h, w)'

LEMMA StartsTurned ==
  ASSUME MeshInv, NEW h \in MHosts, NEW p \in MHosts, RoundStarts(h, p)
  PROVE  Turned(h)
<1>0. MeshTypeOK /\ RowsAreAppended /\ RowsOf(p)
  BY RowsParts DEF MeshInv
<1>1. PICK todo : todo = {HoldingOf(p, s) : s \in Worth(h, p)}
  OBVIOUS
<1>2. PICK w : w = Round(p, todo, 0, {}, rows[p], FALSE)
  OBVIOUS
<1>3. round' = [round EXCEPT ![h] = w]
  BY <1>1, <1>2 DEF RoundStarts, Turns
<1>4. todo \subseteq Streams \X (1 .. MaxSeq) \X (1 .. MaxSeq)
  <2>1. \A s \in Worth(h, p) : s \in Streams /\ SeqsOf(p, s) # {}
    BY DEF Worth
  <2>2. \A s \in Worth(h, p) : HoldingOf(p, s) \in Streams \X (1 .. MaxSeq) \X (1 .. MaxSeq)
    BY <2>1, HoldingFacts
  <2> QED BY <1>1, <2>2
<1>5. rows[p] \subseteq Records
  BY <1>0, TypeFacts
<1>6. /\ w.on /\ w.peer = p /\ w.todo = todo /\ w.ranges = {} /\ w.seen = rows[p] /\ w.cut = FALSE
      /\ w \in Rounds
  <2>1. /\ w.on /\ w.peer = p /\ w.todo = todo /\ w.ranges = {} /\ w.seen = rows[p] /\ w.cut = FALSE
    BY <1>2, Zenon DEF Round
  <2>2. w \in Rounds
    BY <1>2, <1>4, <1>5 DEF Round, Rounds
  <2> QED BY <2>1, <2>2
<1>7. {h, p} \subseteq up
  BY DEF RoundStarts
<1>8. ASSUME NEW r \in rows[p] PROVE Done(h, r) \/ (h = Origin /\ r[1] = current) \/ Ahead(w, r)
  <2>1. r \in Records /\ r[1] \in Streams /\ r[2] \in SeqsOf(p, r[1]) /\ r = <<r[1], r[2]>>
    BY <1>5, RecordParts DEF SeqsOf
  <2>2. CASE r[1] \in Worth(h, p)
    <3>1. PICK held : held = HoldingOf(p, r[1])
      OBVIOUS
    <3>2. held \in todo /\ held[1] = r[1] /\ held[2] <= r[2] /\ r[2] <= held[3]
      BY <1>1, <2>1, <2>2, <3>1, HoldingFacts
    <3> QED BY <1>6, <3>2 DEF Ahead
  <2>3. CASE h = Origin /\ r[1] = current
    BY <2>3
  <2>4. CASE r[1] \notin Worth(h, p) /\ ~(h = Origin /\ r[1] = current)
    <3>1. ~(stamps[r] >= keepFrom[h])
      BY <2>1, <2>4 DEF Worth
    <3>2. stamps[r] \in Int /\ keepFrom[h] \in Int
      BY <1>0, <2>1, TypeFacts DEF MeshTypeOK
    <3> QED BY <3>1, <3>2 DEF Done, Refused
  <2> QED BY <2>2, <2>3, <2>4
<1>9. RoundAccounts(h, w)
  BY <1>0, <1>6, <1>7, <1>8 DEF RoundAccounts, RowsOf
<1>10. RoundAccounts(h, w)'
  BY <1>9, RoundSame DEF RoundStarts, RoundOnly, originVars
<1> QED BY <1>3, <1>6, <1>10 DEF Turned

LEMMA StreamTurned ==
  ASSUME MeshInv, NEW h \in MHosts, RoundStream(h)
  PROVE  Turned(h)
<1>0. MeshTypeOK /\ RoundAccounts(h, round[h])
  BY DEF MeshInv
<1>1. PICK v : v = round[h]
  OBVIOUS
<1>2. v.on /\ v.ranges = {} /\ RoundAccounts(h, v)
  BY <1>0, <1>1 DEF RoundStream
<1>3. /\ v.peer \in {0} \cup MHosts /\ v.todo \subseteq Streams \X (1 .. MaxSeq) \X (1 .. MaxSeq)
      /\ v.seen \subseteq Records /\ v.cut \in BOOLEAN
  BY <1>0, <1>1, RoundFields
<1>4. PICK held \in v.todo :
        Turns(h, Round(v.peer, v.todo \ {held}, held[1], Missing(h, held[1], held[2], held[3]), v.seen, v.cut))
  BY <1>1 DEF RoundStream
<1>5. held[1] \in Streams /\ held[2] \in 1 .. MaxSeq /\ held[3] \in 1 .. MaxSeq /\ held[1] # 0
  BY <1>3, <1>4, MeshParams
<1>6. PICK ranges : ranges = Missing(h, held[1], held[2], held[3])
  OBVIOUS
<1>7. /\ \A g \in ranges : g \in (0 .. MaxSeq) \X (1 .. MaxSeq) /\ g[1] < g[2]
      /\ \A q \in Lack(h, held[1], held[2], held[3]) : \E g \in ranges : g[1] < q /\ q <= g[2]
  BY <1>5, <1>6, RunsCover
<1>8. PICK w : w = Round(v.peer, v.todo \ {held}, held[1], ranges, v.seen, v.cut)
  OBVIOUS
<1>9. round' = [round EXCEPT ![h] = w]
  BY <1>4, <1>6, <1>8 DEF Turns
<1>10. /\ w.on /\ w.peer = v.peer /\ w.todo = v.todo \ {held} /\ w.stream = held[1] /\ w.ranges = ranges
       /\ w.seen = v.seen /\ w.cut = v.cut
       /\ w \in Rounds
  BY <1>3, <1>5, <1>7, <1>8, RoundMake
<1>11. ASSUME ~v.cut, NEW r \in v.seen \cap rows[v.peer]
       PROVE  Done(h, r) \/ (h = Origin /\ r[1] = current) \/ Ahead(w, r)
  <2>1. Done(h, r) \/ (h = Origin /\ r[1] = current) \/ Ahead(v, r)
    BY <1>2, <1>11 DEF RoundAccounts
  <2>2. CASE \E o \in v.todo : o # held /\ r[1] = o[1] /\ o[2] <= r[2] /\ r[2] <= o[3]
    BY <1>10, <2>2 DEF Ahead
  <2>3. CASE r[1] = held[1] /\ held[2] <= r[2] /\ r[2] <= held[3]
    <3>1. r \in Records
      BY <1>3, <1>11
    <3>2. r[2] \in 1 .. MaxSeq /\ r[2] \in held[2] .. held[3] /\ r = <<held[1], r[2]>> /\ r[2] \in Int
      BY <1>5, <2>3, <3>1, RecordParts, MeshParams
    <3>3. CASE r[2] \in Lack(h, held[1], held[2], held[3])
      <4>1. \E g \in ranges : g[1] < r[2] /\ r[2] <= g[2]
        BY <1>7, <3>3
      <4> QED BY <1>10, <2>3, <4>1 DEF Ahead
    <3>4. CASE r[2] \in SeqsOf(h, held[1])
      BY <3>2, <3>4 DEF SeqsOf, Done
    <3>5. CASE ~(r[2] > floors[h][held[1]])
      <4>1. floors[h][held[1]] \in Int
        BY <1>0, <1>5, TypeFacts, MeshParams
      <4> QED BY <2>3, <3>2, <3>5, <4>1 DEF Done, Refused
    <3> QED BY <3>2, <3>3, <3>4, <3>5 DEF Lack
  <2> QED BY <1>2, <2>1, <2>2, <2>3 DEF Ahead
<1>12. RoundAccounts(h, w)
  BY <1>2, <1>5, <1>7, <1>10, <1>11 DEF RoundAccounts
<1>13. RoundAccounts(h, w)'
  BY <1>12, RoundSame DEF RoundStream, RoundOnly, originVars
<1> QED BY <1>9, <1>10, <1>13 DEF Turned

LEMMA FetchesTurned ==
  ASSUME MeshInv, NEW h \in MHosts, RoundFetches(h)
  PROVE  Turned(h)
<1>0. MeshTypeOK /\ RowsAreAppended /\ UNCHANGED <<keepFrom, up, originVars, stamps, current>>
  BY DEF MeshInv, RoundFetches, RoundOnly, originVars
<1>1. PICK v : v = round[h]
  OBVIOUS
<1>2. v.on /\ RoundAccounts(h, v)
  BY <1>1 DEF RoundFetches, MeshInv
<1>3. /\ v.peer \in {0} \cup MHosts /\ v.todo \subseteq Streams \X (1 .. MaxSeq) \X (1 .. MaxSeq)
      /\ v.stream \in {0} \cup Streams /\ v.ranges \subseteq (0 .. MaxSeq) \X (1 .. MaxSeq)
      /\ v.seen \subseteq Records /\ v.cut \in BOOLEAN /\ v \in Rounds
  BY <1>0, <1>1, RoundFields, TypeFacts
<1>4. PICK range, upto, page :
        /\ Fetch(h, range, upto, page) /\ Copies({c \in page : c[2] <= range[2]})
        /\ \/ /\ Inserted(h, {c \in page : c[2] <= range[2]})
              /\ Turns(h, Round(v.peer, v.todo, v.stream,
                                (v.ranges \ {range}) \cup (IF page = {} THEN {} ELSE Rest(range, upto)), v.seen, v.cut))
           \/ /\ UNCHANGED dbVars
              /\ Turns(h, Round(v.peer, v.todo, v.stream, v.ranges \ {range}, v.seen, TRUE))
  BY <1>1, FetchSteps
<1>5. /\ range \in v.ranges /\ upto \in {range[1]} \cup SeqsOf(v.peer, v.stream)
      /\ page = Between(v.peer, v.stream, range[1], upto)
      /\ IsPage(v.peer, v.stream, range[1], upto, IF range[2] - range[1] < Page THEN range[2] - range[1] ELSE Page)
  BY <1>1, <1>4 DEF Fetch
<1>6. /\ range[1] \in 0 .. MaxSeq /\ range[2] \in 1 .. MaxSeq /\ range[1] < range[2] /\ upto \in 0 .. MaxSeq
      /\ v.stream # 0 /\ {h, v.peer} \subseteq up /\ v.peer \in MHosts
  <2>1. v.ranges # {} /\ range \in (0 .. MaxSeq) \X (1 .. MaxSeq)
    BY <1>3, <1>5
  <2>2. range[1] < range[2] /\ v.stream # 0 /\ {h, v.peer} \subseteq up /\ v.peer \in MHosts
    BY <1>0, <1>2, <1>5, <2>1 DEF RoundAccounts, MeshTypeOK
  <2>3. upto \in 0 .. MaxSeq
    BY <1>5, <2>1, MeshParams DEF SeqsOf
  <2> QED BY <2>1, <2>2, <2>3
<1>7. CASE /\ UNCHANGED dbVars
           /\ Turns(h, Round(v.peer, v.todo, v.stream, v.ranges \ {range}, v.seen, TRUE))
  <2>1. PICK w : w = Round(v.peer, v.todo, v.stream, v.ranges \ {range}, v.seen, TRUE)
    OBVIOUS
  <2>2. round' = [round EXCEPT ![h] = w]
    BY <1>7, <2>1 DEF Turns
  <2>3. /\ w.on /\ w.peer = v.peer /\ w.stream = v.stream /\ w.ranges = v.ranges \ {range} /\ w.seen = v.seen /\ w.cut
        /\ w \in Rounds
    <3>1. v.ranges \ {range} \subseteq (0 .. MaxSeq) \X (1 .. MaxSeq)
      BY <1>3
    <3>2. w \in Rounds
      BY <1>3, <2>1, <3>1 DEF Round, Rounds
    <3> QED BY <2>1, <3>2 DEF Round
  <2>4. RoundAccounts(h, w)
    BY <1>2, <2>3 DEF RoundAccounts
  <2>5. RoundAccounts(h, w)'
    BY <1>0, <1>7, <2>4, RoundSame DEF originVars
  <2> QED BY <2>2, <2>3, <2>5 DEF Turned
<1>8. CASE /\ Inserted(h, {c \in page : c[2] <= range[2]})
           /\ Turns(h, Round(v.peer, v.todo, v.stream,
                             (v.ranges \ {range}) \cup (IF page = {} THEN {} ELSE Rest(range, upto)), v.seen, v.cut))
  <2>1. PICK rest : rest = IF page = {} THEN {} ELSE Rest(range, upto)
    OBVIOUS
  <2>2. PICK w : w = Round(v.peer, v.todo, v.stream, (v.ranges \ {range}) \cup rest, v.seen, v.cut)
    OBVIOUS
  <2>3. round' = [round EXCEPT ![h] = w]
    BY <1>8, <2>1, <2>2 DEF Turns
  <2>4. /\ rest \subseteq {<<upto, range[2]>>}
        /\ rest # {} => upto < range[2]
        /\ page # {} /\ upto < range[2] => <<upto, range[2]>> \in rest
    BY <2>1 DEF Rest
  <2>5. \A g \in rest : g \in (0 .. MaxSeq) \X (1 .. MaxSeq) /\ g[1] < g[2]
    BY <1>6, <2>4
  <2>6. /\ w.on /\ w.peer = v.peer /\ w.todo = v.todo /\ w.stream = v.stream
        /\ w.ranges = (v.ranges \ {range}) \cup rest /\ w.seen = v.seen /\ w.cut = v.cut
        /\ w \in Rounds
    BY <1>3, <2>2, <2>5, RoundMake
  <2>7. PICK news : news = {c \in page : c[2] <= range[2]}
    OBVIOUS
  <2>8. news \in SUBSET Records /\ Inserted(h, news)
    BY <1>4, <1>8, <2>7 DEF Copies
  <2>9. Fresh(v.peer) /\ Keeps(h)
    BY <1>0, <1>6, <2>8, InsertedKeeps DEF originVars
  <2>10. RoundAccounts(h, v)'
    BY <1>0, <1>2, <1>3, <1>6, <2>9, RoundFrame
  <2>11. /\ {h, v.peer} \subseteq up' /\ v.seen \subseteq ever'[v.peer]
         /\ \A g \in v.ranges : g[1] < g[2]
         /\ ~v.cut => \A r \in v.seen \cap rows'[v.peer] :
                         Done(h, r)' \/ (h = Origin /\ r[1] = current') \/ Ahead(v, r)
    BY <1>2, <2>10 DEF RoundAccounts, Ahead
  <2>12. v.seen \cap rows'[v.peer] \subseteq rows[v.peer]
    BY <1>2, <2>9 DEF RoundAccounts, Fresh
  <2>13. ASSUME NEW r \in v.seen \cap rows'[v.peer], r[1] = v.stream, range[1] < r[2], r[2] <= range[2]
         PROVE  Done(h, r)' \/ Ahead(w, r)
    <3>1. r \in rows[v.peer] /\ r \in Records
      BY <1>3, <2>12, <2>13
    <3>2. r[2] \in SeqsOf(v.peer, v.stream) /\ r = <<v.stream, r[2]>> /\ r[2] \in Int
      BY <2>13, <3>1, RecordParts DEF SeqsOf
    <3>3. CASE r \in page
      <4>1. r \in news
        BY <2>7, <2>13, <3>3
      <4>2. r \in rows'[h] \/ Refused(h, r)
        BY <1>0, <2>8, <4>1, InsertedFacts
      <4>3. r[2] <= chain[r[1]]
        BY <1>6, <3>1, <1>0, RowsParts DEF RowsOf
      <4>4. Refused(h, r) => Done(h, r)'
        BY <2>9, <3>1, <4>3 DEF Keeps, Done
      <4> QED BY <4>2, <4>4 DEF Done
    <3>4. CASE page # {} /\ r[2] > upto
      <4>1. <<upto, range[2]>> \in w.ranges
        BY <1>6, <2>4, <2>6, <2>13, <3>2, <3>4, MeshParams
      <4> QED BY <2>6, <2>13, <3>4, <4>1 DEF Ahead
    <3> QED
      <4>1. PICK n : n = IF range[2] - range[1] < Page THEN range[2] - range[1] ELSE Page
        OBVIOUS
      <4>2. n \in Int /\ n > 0 /\ range[1] \in Int /\ upto \in Int
        BY <1>6, <4>1, MeshParams
      <4>3. IsPage(v.peer, v.stream, range[1], upto, n)
        BY <1>5, <4>1
      <4>4. <<v.stream, r[2]>> \in page \/ (r[2] > upto /\ page # {})
        BY <1>5, <2>13, <3>2, <4>2, <4>3, PageReads
      <4> QED BY <3>2, <3>3, <3>4, <4>4
  <2>14. ASSUME ~v.cut, NEW r \in v.seen \cap rows'[v.peer]
         PROVE  Done(h, r)' \/ (h = Origin /\ r[1] = current') \/ Ahead(w, r)
    <3>1. Ahead(v, r) => Ahead(w, r) \/ (r[1] = v.stream /\ range[1] < r[2] /\ r[2] <= range[2])
      BY <2>6 DEF Ahead
    <3> QED BY <2>11, <2>13, <2>14, <3>1
  <2>15. RoundAccounts(h, w)'
    BY <1>6, <2>5, <2>6, <2>11, <2>14 DEF RoundAccounts, Ahead
  <2> QED BY <2>3, <2>6, <2>15 DEF Turned
<1> QED BY <1>4, <1>7, <1>8

LEMMA EndsTurned ==
  ASSUME NEW h, RoundEnds(h)
  PROVE  Turned(h)
<1>1. round' = [round EXCEPT ![h] = NoRound]
  BY DEF RoundEnds, Turns
<1>2. RoundAccounts(h, NoRound)'
  BY NoRoundFacts DEF RoundAccounts, NoRound, Round
<1> QED BY <1>1, <1>2, NoRoundFacts DEF Turned

-----------------------------------------------------------------------------
(* The links.                                                              *)

\* What a link that is on accounts for, without and with its promise.
Owes(h, l) ==
    /\ {h, Origin} \subseteq up /\ l.cursor <= chain[current]
    /\ \A item \in l.plan : item[1] <= current
    /\ l.owed \subseteq ever[Origin]
    /\ \A r \in Records : InFlight(l, r) => r[2] <= chain[r[1]]
    /\ \A r \in l.owed \cap rows[Origin] : Done(h, r) \/ InFlight(l, r) \/ Covers(l.plan, r)
Follows(h, l) ==
    /\ l.from[1] = current
    /\ l.plan # {} => EndsWithCurrent(l.plan)
    /\ \A item \in l.plan : item[1] = current => item[2] <= chain[current]
    /\ l.plan = {} => l.last <= chain[current]
    /\ \A r \in rows[Origin] : Promised(l, r) =>
        \/ Done(h, r) \/ InFlight(l, r) \/ Covers(l.plan, r)
        \/ l.plan = {} /\ r[2] > l.last /\ r[2] > l.cursor
LEMMA LinkParts ==
  ASSUME NEW h, NEW l
  PROVE  /\ LinkAccounts(h, l) <=> (l.on => Owes(h, l) /\ (l.from[1] # 0 => Follows(h, l)))
         /\ LinkAccounts(h, l)' <=> (l.on => Owes(h, l)' /\ (l.from[1] # 0 => Follows(h, l)'))
BY DEF LinkAccounts, Owes, Follows

LEMMA LinkSame ==
  ASSUME NEW h, NEW l, LinkAccounts(h, l), UNCHANGED <<dbVars, keepFrom, up, originVars>>
  PROVE  LinkAccounts(h, l)'
BY DEF LinkAccounts, Covers, EndsWithCurrent, InFlight, Promised, Done, Refused, dbVars, originVars

LEMMA LinkMake ==
  ASSUME NEW plan, NEW last, NEW cursor, NEW wire, NEW owed, NEW from
  PROVE  LET l == Link(plan, last, cursor, wire, owed, from) IN
         /\ l.on /\ l.plan = plan /\ l.last = last /\ l.cursor = cursor /\ l.wire = wire
         /\ l.owed = owed /\ l.from = from
         /\ (/\ plan \subseteq Streams \X (0 .. MaxSeq) /\ last \in 0 .. MaxSeq /\ cursor \in 0 .. MaxSeq
             /\ wire \in Seq(SUBSET Records) /\ owed \subseteq Records
             /\ from \in ({0} \cup Streams) \X (0 .. MaxSeq)) => l \in Links
BY DEF Link, Links

LEMMA NoLinkFacts == NoLink \in Links /\ ~NoLink.on /\ \A h : LinkAccounts(h, NoLink)
<1>0. <<0, 0>> \in ({0} \cup Streams) \X (0 .. MaxSeq) /\ 0 \in 0 .. MaxSeq /\ <<>> \in Seq(SUBSET Records)
  BY MeshParams
<1>1. PICK l : l = Link({}, 0, 0, <<>>, {}, <<0, 0>>)
  OBVIOUS
<1>3. l \in Links
  BY <1>0, <1>1, LinkMake, ZenonT(30)
<1>2. NoLink \in Links /\ ~NoLink.on
  BY <1>1, <1>3 DEF Links, NoLink
<1> QED BY <1>2 DEF LinkAccounts

\* What a link keeps through a step that is not its own and appends nothing.
LEMMA LinkFrame ==
  ASSUME MeshTypeOK, RowsAreAppended, RowsAreAppended', rows'[Origin] \subseteq Records,
         NEW h \in MHosts, NEW l \in Links, LinkAccounts(h, l),
         l.on => /\ {h, Origin} \subseteq up' /\ Fresh(Origin) /\ Keeps(h)
                 /\ UNCHANGED <<current, started, chain>>
  PROVE  LinkAccounts(h, l)'
<1> SUFFICES ASSUME l.on PROVE Owes(h, l)' /\ (l.from[1] # 0 => Follows(h, l)')
  BY LinkParts
<1>1. Owes(h, l) /\ (l.from[1] # 0 => Follows(h, l))
  BY LinkParts
<1>2. l.plan \subseteq Streams \X (0 .. MaxSeq) /\ l.owed \subseteq Records
  BY DEF Links
<1>3. Origin \in MHosts /\ Origin \in up /\ RowsOf(Origin) /\ OwnRows
  BY <1>1, RowsParts, MeshParams DEF Owes
<1>4. Origin \in MHosts /\ RowsOf(Origin)'
  BY MeshParams DEF RowsAreAppended, RowsOf
<1>5. \A r \in rows[Origin] : r \in Records /\ (Done(h, r) => Done(h, r)')
  <2> SUFFICES ASSUME NEW r \in rows[Origin] PROVE r \in Records /\ (Done(h, r) => Done(h, r)')
    OBVIOUS
  <2>1. r \in Records /\ r[2] <= chain[r[1]]
    BY <1>3, TypeFacts DEF RowsOf
  <2> QED BY <2>1 DEF Keeps
<1>6. \A r \in rows'[Origin] : r \in rows[Origin] \/ (r \notin ever[Origin] /\ r[1] # current)
  <2> SUFFICES ASSUME NEW r \in rows'[Origin], r \notin rows[Origin] PROVE r \notin ever[Origin] /\ r[1] # current
    OBVIOUS
  <2>1. r \notin ever[Origin]
    BY DEF Fresh
  <2>2. r[2] <= chain[r[1]] /\ r \in Records
    BY <1>4 DEF RowsOf
  <2>3. r = <<r[1], r[2]>> /\ r[2] \in Int /\ r[2] >= 1
    BY <2>2, RecordParts
  <2>4. chain[current] \in Int
    BY MeshParams DEF MeshTypeOK
  <2>5. r[1] # current
    <3> SUFFICES ASSUME r[1] = current PROVE FALSE
      OBVIOUS
    <3>1. r[2] \in 1 .. chain[current]
      BY <2>2, <2>3, <2>4
    <3>2. <<current, r[2]>> \in ever[Origin]
      BY <1>3, <3>1 DEF OwnRows
    <3> QED BY <2>1, <2>3, <3>2
  <2> QED BY <2>1, <2>5
<1>7. Owes(h, l)'
  <2>1. \A r \in l.owed \cap rows'[Origin] : Done(h, r)' \/ InFlight(l, r) \/ Covers(l.plan, r)
    BY <1>1, <1>5, <1>6 DEF Owes
  <2>2. l.owed \subseteq ever'[Origin]
    BY <1>1 DEF Owes, Fresh
  <2> QED BY <1>1, <2>1, <2>2 DEF Owes, InFlight, Covers
<1>8. ASSUME l.from[1] # 0 PROVE Follows(h, l)'
  <2>0. Follows(h, l) /\ UNCHANGED <<current, started, chain>>
    BY <1>1, <1>8
  <2>1. ASSUME NEW r \in rows'[Origin], Promised(l, r)
        PROVE  \/ Done(h, r)' \/ InFlight(l, r) \/ Covers(l.plan, r)
               \/ l.plan = {} /\ r[2] > l.last /\ r[2] > l.cursor
    <3>1. r[1] = current
      BY <2>0, <2>1 DEF Follows, Promised
    <3>2. r \in rows[Origin]
      BY <1>6, <3>1
    <3> QED BY <1>5, <2>0, <2>1, <3>2 DEF Follows
  <2> QED BY <2>0, <2>1 DEF Follows, InFlight, Covers, Promised, EndsWithCurrent
<1> QED BY <1>7, <1>8

\* A record that is appended is covered, or will be broadcast.
LEMMA LinkAppend ==
  ASSUME MeshTypeOK, RowsAreAppended, NEW t \in 0 .. mnow, Append1(t),
         NEW h \in MHosts, NEW l \in Links, LinkAccounts(h, l)
  PROVE  LinkAccounts(h, l)'
<1> SUFFICES ASSUME l.on PROVE Owes(h, l)' /\ (l.from[1] # 0 => Follows(h, l)')
  BY LinkParts
<1>1. Owes(h, l) /\ (l.from[1] # 0 => Follows(h, l))
  BY LinkParts
<1>2. l.plan \subseteq Streams \X (0 .. MaxSeq) /\ l.owed \subseteq Records /\ l.last \in Int /\ l.cursor \in Int
  BY MeshParams DEF Links
<1>3. PICK x \in Records :
           /\ x = <<current, chain[current] + 1>> /\ chain[current] \in Nat
           /\ \A g \in MHosts : x \notin ever[g]
           /\ chain' = [chain EXCEPT ![current] = x[2]]
           /\ rows' = [rows EXCEPT ![Origin] = rows[Origin] \cup {x}]
           /\ ever' = [ever EXCEPT ![Origin] = ever[Origin] \cup {x}]
  BY AppendFacts
<1>4. /\ rows'[Origin] = rows[Origin] \cup {x} /\ ever'[Origin] = ever[Origin] \cup {x}
      /\ chain'[current] = chain[current] + 1 /\ UNCHANGED <<current, started, up>> /\ x \notin ever[Origin]
      /\ x[1] = current /\ x[2] = chain[current] + 1
  BY <1>3, MeshParams DEF MeshTypeOK, Append1
<1>5. \A r \in rows[Origin] : Done(h, r) => Done(h, r)'
  <2> SUFFICES ASSUME NEW r \in rows[Origin], Done(h, r) PROVE Done(h, r)'
    OBVIOUS
  <2>1. r \in Records /\ r[2] <= chain[r[1]]
    BY TypeFacts, MeshParams, RowsParts DEF RowsOf
  <2>2. Keeps(h)
    BY AppendKeeps
  <2> QED BY <2>1, <2>2 DEF Keeps
<1>6. \A r \in Records : r[2] <= chain[r[1]] => r[2] <= chain'[r[1]]
  <2> SUFFICES ASSUME NEW r \in Records, r[2] <= chain[r[1]] PROVE r[2] <= chain'[r[1]]
    OBVIOUS
  <2>1. r[1] \in Streams /\ r[2] \in Int
    BY RecordParts
  <2>2. chain'[r[1]] = chain[r[1]] \/ (r[1] = current /\ chain'[r[1]] = chain[current] + 1)
    BY <1>3, <1>4, <2>1 DEF MeshTypeOK
  <2> QED BY <1>3, <2>1, <2>2
<1>7. Owes(h, l)'
  <2>1. \A r \in l.owed \cap rows'[Origin] : r \in rows[Origin]
    BY <1>1, <1>4 DEF Owes
  <2>2. \A r \in l.owed \cap rows'[Origin] : Done(h, r)' \/ InFlight(l, r) \/ Covers(l.plan, r)
    BY <1>1, <1>5, <2>1 DEF Owes
  <2>3. l.owed \subseteq ever'[Origin] /\ l.cursor <= chain'[current']
    BY <1>1, <1>2, <1>3, <1>4 DEF Owes
  <2>4. \A r \in Records : InFlight(l, r) => r[2] <= chain'[r[1]]
    BY <1>1, <1>6 DEF Owes
  <2> QED BY <1>1, <1>4, <2>2, <2>3, <2>4 DEF Owes, InFlight, Covers
<1>8. ASSUME l.from[1] # 0 PROVE Follows(h, l)'
  <2>0. Follows(h, l)
    BY <1>1, <1>8
  <2>1. ASSUME NEW r \in rows[Origin], Promised(l, r)
        PROVE  \/ Done(h, r)' \/ InFlight(l, r) \/ Covers(l.plan, r)
               \/ l.plan = {} /\ r[2] > l.last /\ r[2] > l.cursor
    BY <1>5, <2>0, <2>1 DEF Follows
  <2>2. Covers(l.plan, x) \/ (l.plan = {} /\ x[2] > l.last /\ x[2] > l.cursor)
    <3>1. CASE l.plan = {}
      <4>1. l.last <= chain[current] /\ l.cursor <= chain[current]
        BY <1>1, <2>0, <3>1 DEF Follows, Owes
      <4> QED BY <1>2, <1>3, <1>4, <3>1, <4>1
    <3>2. CASE l.plan # {}
      <4>1. PICK item \in l.plan : item[1] = current /\ item[2] <= chain[current]
        BY <2>0, <3>2 DEF Follows, EndsWithCurrent
      <4>2. item[2] \in Int
        BY <1>2, <4>1, MeshParams
      <4> QED BY <1>3, <1>4, <4>1, <4>2 DEF Covers
    <3> QED BY <3>1, <3>2
  <2>3. \A item \in l.plan : item[1] = current' => item[2] <= chain'[current']
    <3> SUFFICES ASSUME NEW item \in l.plan, item[1] = current PROVE item[2] <= chain[current] + 1
      BY <1>4
    <3>1. item[2] \in Int /\ item[2] <= chain[current]
      BY <1>2, <2>0, MeshParams, SMTT(30) DEF Follows
    <3> QED BY <1>3, <3>1
  <2>4. l.plan = {} => l.last <= chain'[current']
    BY <1>2, <1>3, <1>4, <2>0 DEF Follows
  <2>5. \A r \in rows'[Origin] : Promised(l, r) =>
               \/ Done(h, r)' \/ InFlight(l, r) \/ Covers(l.plan, r)
               \/ l.plan = {} /\ r[2] > l.last /\ r[2] > l.cursor
    BY <1>4, <2>1, <2>2
  <2> QED BY <1>4, <2>0, <2>3, <2>4, <2>5 DEF Follows, InFlight, Covers, Promised, EndsWithCurrent
<1> QED BY <1>7, <1>8

\* The step of a link gives a link that accounts for what it was opened for.
Relinked(h) == \E l \in Links : link' = [link EXCEPT ![h] = l] /\ LinkAccounts(h, l)'

\* feed's plan: streams that were begun, after a record that was appended.
LEMMA PlanFacts ==
  ASSUME MeshTypeOK, RowsAreAppended, NEW h \in MHosts, NEW plan \in {Replays(h), OnlyCurrent}
  PROVE  /\ plan \subseteq Streams \X (0 .. MaxSeq)
         /\ \A item \in plan : item[1] <= current
         /\ \A item \in plan : item[2] <= chain[item[1]]
<1>0. /\ current \in Streams /\ current \in Int /\ 0 \in 0 .. MaxSeq
      /\ \A s \in Streams : chain[s] \in Int /\ chain[s] >= 0
  BY MeshParams DEF MeshTypeOK
<1> SUFFICES ASSUME NEW item \in plan
             PROVE  /\ item \in Streams \X (0 .. MaxSeq) /\ item[1] <= current
                    /\ item[2] <= chain[item[1]]
  OBVIOUS
<1>1. CASE item = <<current, 0>>
  BY <1>0, <1>1
<1>2. ASSUME NEW s \in StreamsOf(Origin), item = <<s, 0>>
      PROVE  /\ item \in Streams \X (0 .. MaxSeq) /\ item[1] <= current
             /\ item[2] <= chain[item[1]]
  <2>1. s \in Streams /\ s <= current
    BY RowsParts, MeshParams DEF RowsOf, StreamsOf
  <2> QED BY <1>0, <1>2, <2>1
<1>3. ASSUME NEW s \in StreamsOf(Origin), item = <<s, LastSeq(h, s)>>
      PROVE  /\ item \in Streams \X (0 .. MaxSeq) /\ item[1] <= current
             /\ item[2] <= chain[item[1]]
  <2>1. s \in Streams /\ s <= current
    BY RowsParts, MeshParams DEF RowsOf, StreamsOf
  <2>2. CASE LastSeq(h, s) = 0
    BY <1>0, <1>3, <2>1, <2>2
  <2>3. CASE LastSeq(h, s) \in SeqsOf(h, s)
    <3>1. LastSeq(h, s) \in 1 .. MaxSeq /\ <<s, LastSeq(h, s)>> \in ever[h]
      BY <2>3, RowsParts DEF RowsOf, SeqsOf
    <3>2. LastSeq(h, s) <= chain[s]
      BY <3>1, RowsParts DEF RowsOf
    <3>3. LastSeq(h, s) \in 0 .. MaxSeq
      BY <3>1, MeshParams
    <3> QED BY <1>3, <2>1, <3>2, <3>3
  <2> QED BY <2>2, <2>3, LastSeqOf
<1>4. \/ item = <<current, 0>>
      \/ \E s \in StreamsOf(Origin) : item = <<s, 0>> \/ item = <<s, LastSeq(h, s)>>
  <2>1. CASE plan = OnlyCurrent
    BY <2>1 DEF OnlyCurrent
  <2>2. CASE plan = Replays(h)
    <3>1. PICK asked : asked = Newest(StreamsOf(h))
      OBVIOUS
    <3>2. plan = IF StreamsOf(h) # {} /\ asked \in StreamsOf(Origin)
                   THEN {<<asked, LastSeq(h, asked)>>} \cup {<<t, 0>> : t \in Later(asked)}
                   ELSE OnlyCurrent
      BY <2>2, <3>1 DEF Replays
    <3>3. Later(asked) \subseteq StreamsOf(Origin)
      BY DEF Later
    <3>4. CASE StreamsOf(h) # {} /\ asked \in StreamsOf(Origin)
      BY <3>2, <3>3, <3>4
    <3>5. CASE ~(StreamsOf(h) # {} /\ asked \in StreamsOf(Origin))
      BY <3>2, <3>5 DEF OnlyCurrent
    <3> QED BY <3>4, <3>5
  <2> QED BY <2>1, <2>2
<1> QED BY <1>1, <1>2, <1>3, <1>4

LEMMA OpensRelinked ==
  ASSUME MeshInv, NEW h \in MHosts, LinkOpens(h)
  PROVE  Relinked(h)
<1>0. MeshTypeOK /\ RowsAreAppended /\ RowsOf(Origin) /\ {h, Origin} \subseteq up
  BY RowsParts, MeshParams DEF MeshInv, LinkOpens
<1>1. PICK plan \in {Replays(h), OnlyCurrent} :
        Tell(h, Link(plan, 0, chain[current], <<>>, {r \in rows[Origin] : Covers(plan, r)},
                     IF EndsWithCurrent(plan) THEN <<current, chain[current]>> ELSE <<0, 0>>))
  BY DEF LinkOpens
<1>2. /\ plan \subseteq Streams \X (0 .. MaxSeq)
      /\ \A item \in plan : item[1] <= current
      /\ \A item \in plan : item[2] <= chain[item[1]]
  BY <1>0, <1>1, PlanFacts
<1>3. PICK owed : owed = {r \in rows[Origin] : Covers(plan, r)}
  OBVIOUS
<1>4. PICK from : from = IF EndsWithCurrent(plan) THEN <<current, chain[current]>> ELSE <<0, 0>>
  OBVIOUS
<1>5. PICK l : l = Link(plan, 0, chain[current], <<>>, owed, from)
  OBVIOUS
<1>6. link' = [link EXCEPT ![h] = l]
  BY <1>1, <1>3, <1>4, <1>5 DEF Tell
<1>7. /\ current \in Streams /\ current # 0 /\ chain[current] \in 0 .. MaxSeq /\ chain[current] \in Int
      /\ 0 \in 0 .. MaxSeq /\ chain[current] >= 0
  BY <1>0, MeshParams DEF MeshTypeOK
<1>8. owed \subseteq Records /\ owed \subseteq ever[Origin] /\ from \in ({0} \cup Streams) \X (0 .. MaxSeq)
  BY <1>0, <1>3, <1>4, <1>7, TypeFacts, MeshParams DEF RowsOf
<1>9. <<>> \in Seq(SUBSET Records)
  OBVIOUS
<1>10. /\ l.on /\ l.plan = plan /\ l.last = 0 /\ l.cursor = chain[current] /\ l.wire = <<>>
       /\ l.owed = owed /\ l.from = from
       /\ l \in Links
  <2>1. /\ l.on /\ l.plan = plan /\ l.last = 0 /\ l.cursor = chain[current] /\ l.wire = <<>>
        /\ l.owed = owed /\ l.from = from
    BY <1>5, Zenon DEF Link
  <2>2. l \in Links
    BY <1>2, <1>5, <1>7, <1>8, <1>9 DEF Link, Links
  <2> QED BY <2>1, <2>2
<1>11. \A r : ~InFlight(l, r)
  BY <1>10 DEF InFlight
<1>12. Owes(h, l)
  BY <1>0, <1>2, <1>3, <1>7, <1>8, <1>10, <1>11 DEF Owes
<1>13. ASSUME l.from[1] # 0 PROVE Follows(h, l)
  <2>1. EndsWithCurrent(plan) /\ from = <<current, chain[current]>>
    BY <1>4, <1>10, <1>13
  <2>2. \A r \in rows[Origin] : ~Promised(l, r)
    <3> SUFFICES ASSUME NEW r \in rows[Origin], r[1] = current, r[2] > chain[current] PROVE FALSE
      BY <1>10, <2>1 DEF Promised
    <3>1. r[2] <= chain[current] /\ r \in Records
      BY <1>0, TypeFacts, MeshParams DEF RowsOf
    <3>2. r[2] \in Int
      BY <3>1, RecordParts
    <3> QED BY <1>7, <3>1, <3>2
  <2> QED BY <1>2, <1>7, <1>10, <2>1, <2>2 DEF Follows
<1>14. LinkAccounts(h, l)
  BY <1>12, <1>13, LinkParts
<1>15. LinkAccounts(h, l)'
  BY <1>14, LinkSame DEF LinkOpens, LinkOnly, originVars
<1> QED BY <1>6, <1>10, <1>15 DEF Relinked

\* What is on the wire after a page, and after a record was taken off it.
LEMMA SentFlight ==
  ASSUME NEW wire \in Seq(SUBSET Records), NEW page \in SUBSET Records, NEW l, NEW m,
         l.wire = wire, m.wire = Sent(wire, page)
  PROVE  /\ Sent(wire, page) \in Seq(SUBSET Records)
         /\ \A r : InFlight(m, r) <=> InFlight(l, r) \/ r \in page
<1>1. CASE page = {}
  BY <1>1 DEF Sent, InFlight
<1>2. CASE page # {}
  <2>1. PICK w : w = Append(wire, page)
    OBVIOUS
  <2>2. /\ w \in Seq(SUBSET Records) /\ Len(w) = Len(wire) + 1 /\ Len(wire) \in Nat
        /\ \A i \in 1 .. Len(wire) : w[i] = wire[i]
        /\ w[Len(wire) + 1] = page
    BY <2>1
  <2>3. \A r : (\E i \in 1 .. Len(wire) + 1 : r \in w[i]) <=> (\E i \in 1 .. Len(wire) : r \in wire[i]) \/ r \in page
    <3> SUFFICES ASSUME NEW r
                 PROVE (\E i \in 1 .. Len(wire) + 1 : r \in w[i]) <=> (\E i \in 1 .. Len(wire) : r \in wire[i]) \/ r \in page
      OBVIOUS
    <3>1. \A i \in 1 .. Len(wire) + 1 : i \in 1 .. Len(wire) \/ i = Len(wire) + 1
      BY <2>2
    <3>2. Len(wire) + 1 \in 1 .. Len(wire) + 1 /\ \A i \in 1 .. Len(wire) : i \in 1 .. Len(wire) + 1
      BY <2>2
    <3> QED BY <2>2, <3>1, <3>2
  <2>4. m.wire = w
    BY <1>2, <2>1 DEF Sent
  <2> QED BY <2>2, <2>3, <2>4 DEF InFlight
<1> QED BY <1>1, <1>2

LEMMA ReceivedFlight ==
  ASSUME NEW wire \in Seq(SUBSET Records), wire # <<>>, NEW x \in Head(wire), NEW l, NEW m,
         l.wire = wire, m.wire = Received(wire, x)
  PROVE  /\ Received(wire, x) \in Seq(SUBSET Records)
         /\ \A r : InFlight(m, r) => InFlight(l, r)
         /\ \A r : InFlight(l, r) => InFlight(m, r) \/ r = x
<1>1. PICK n \in Nat : n = Len(wire) - 1 /\ Len(wire) = n + 1
  OBVIOUS
<1>2. PICK tail : tail = Tail(wire)
  OBVIOUS
<1>3. /\ tail \in Seq(SUBSET Records) /\ Len(tail) = n /\ \A i \in 1 .. n : tail[i] = wire[i + 1]
      /\ Head(wire) = wire[1] /\ wire[1] \in SUBSET Records
  BY <1>1, <1>2
<1>4. CASE Head(wire) = {x}
  <2>1. m.wire = tail /\ Received(wire, x) = tail
    BY <1>2, <1>4 DEF Received
  <2>2. \A r : InFlight(m, r) <=> \E i \in 1 .. n : r \in wire[i + 1]
    BY <1>3, <2>1 DEF InFlight
  <2>3. \A r : InFlight(l, r) <=> \E i \in 1 .. n + 1 : r \in wire[i]
    BY <1>1 DEF InFlight
  <2>4. \A i \in 1 .. n : i + 1 \in 1 .. n + 1
    BY <1>1
  <2>5. \A i \in 1 .. n + 1 : i = 1 \/ (i - 1 \in 1 .. n /\ (i - 1) + 1 = i)
    BY <1>1
  <2>6. \A r : InFlight(m, r) => InFlight(l, r)
    BY <2>2, <2>3, <2>4
  <2>7. ASSUME NEW r, InFlight(l, r) PROVE InFlight(m, r) \/ r = x
    <3>1. PICK i \in 1 .. n + 1 : r \in wire[i]
      BY <2>3, <2>7
    <3>2. CASE i = 1
      BY <1>3, <1>4, <3>1, <3>2
    <3>3. CASE i - 1 \in 1 .. n /\ (i - 1) + 1 = i
      BY <2>2, <3>1, <3>3
    <3> QED BY <2>5, <3>2, <3>3
  <2> QED BY <1>3, <2>1, <2>6, <2>7
<1>5. CASE Head(wire) # {x}
  <2>1. PICK w : w = <<Head(wire) \ {x}>> \o tail
    OBVIOUS
  <2>2. m.wire = w /\ Received(wire, x) = w
    BY <1>2, <1>5, <2>1 DEF Received
  <2>3. PICK p \in SUBSET Records : p = Head(wire) \ {x}
    BY <1>3
  <2>4. w \in Seq(SUBSET Records) /\ Len(w) = n + 1 /\ w[1] = wire[1] \ {x} /\ \A i \in 2 .. n + 1 : w[i] = tail[i - 1]
    BY <1>1, <1>3, <2>1, <2>3
  <2>5. \A i \in 2 .. n + 1 : i - 1 \in 1 .. n /\ (i - 1) + 1 = i
    BY <1>1
  <2>6. \A i \in 2 .. n + 1 : w[i] = wire[i]
    BY <1>3, <2>4, <2>5
  <2>7. 1 \in 1 .. n + 1 /\ \A i \in 1 .. n + 1 : i = 1 \/ i \in 2 .. n + 1
    BY <1>1
  <2>8. \A r : InFlight(m, r) <=> \E i \in 1 .. n + 1 : r \in w[i]
    BY <2>2, <2>4 DEF InFlight
  <2>9. \A r : InFlight(l, r) <=> \E i \in 1 .. n + 1 : r \in wire[i]
    BY <1>1 DEF InFlight
  <2> QED BY <2>2, <2>4, <2>6, <2>7, <2>8, <2>9
<1> QED BY <1>4, <1>5

\* A page that send_from read, and what of its stream comes after it.
PageRead(item, upto, page, more) ==
    /\ upto \in {item[2]} \cup SeqsOf(Origin, item[1])
    /\ page = Between(Origin, item[1], item[2], upto)
    /\ more = IF Cardinality(page) = Page THEN {<<item[1], upto>>} ELSE {}
    /\ IsPage(Origin, item[1], item[2], upto, Page)

\* What a page of the oldest stream of a plan leaves of it.
LEMMA PlanLeft ==
  ASSUME MeshTypeOK, RowsAreAppended, NEW l \in Links, NEW item \in l.plan, NEW upto, NEW page, NEW more,
         PageRead(item, upto, page, more)
  PROVE  /\ item[1] \in Streams /\ item[2] \in 0 .. MaxSeq /\ upto \in 0 .. MaxSeq
         /\ more \subseteq {<<item[1], upto>>}
         /\ page \in SUBSET Records /\ page \subseteq rows[Origin]
         /\ item[2] <= chain[item[1]] => upto <= chain[item[1]]
         /\ \A r \in rows[Origin] : Covers(l.plan, r) => Covers((l.plan \ {item}) \cup more, r) \/ r \in page
<1> USE DEF PageRead
<1>1. item \in Streams \X (0 .. MaxSeq)
  BY DEF Links
<1>2. item[1] \in Streams /\ item[2] \in 0 .. MaxSeq
  BY <1>1
<1>3. upto \in 0 .. MaxSeq
  BY <1>2, MeshParams DEF SeqsOf
<1>4. page \subseteq rows[Origin] /\ page \in SUBSET Records
  <2>1. page \subseteq rows[Origin]
    BY DEF Between, SeqsOf
  <2> QED BY <2>1, TypeFacts, MeshParams
<1>5. item[2] <= chain[item[1]] => upto <= chain[item[1]]
  <2>1. RowsOf(Origin)
    BY RowsParts, MeshParams
  <2> QED BY <2>1 DEF RowsOf, SeqsOf
<1>6. ASSUME NEW r \in rows[Origin], Covers(l.plan, r) PROVE Covers((l.plan \ {item}) \cup more, r) \/ r \in page
  <2>1. CASE \E o \in l.plan : o # item /\ r[1] = o[1] /\ r[2] > o[2]
    BY <2>1 DEF Covers
  <2>2. CASE r[1] = item[1] /\ r[2] > item[2]
    <3>1. r \in Records
      BY TypeFacts, MeshParams
    <3>2. r = <<item[1], r[2]>> /\ r[2] \in Int /\ r[2] \in SeqsOf(Origin, item[1]) /\ item[2] < r[2]
      BY <1>2, <2>2, <3>1, RecordParts, MeshParams DEF SeqsOf
    <3>3. item[2] \in Int /\ upto \in Int /\ Page \in Int /\ Page > 0
      BY <1>2, <1>3, MeshParams
    <3>4. <<item[1], r[2]>> \in page \/ (r[2] > upto /\ Cardinality(page) = Page)
      BY <3>2, <3>3, PageReads
    <3>5. CASE r[2] > upto /\ Cardinality(page) = Page
      <4>1. <<item[1], upto>> \in (l.plan \ {item}) \cup more
        BY <3>5
      <4> QED BY <2>2, <3>5, <4>1 DEF Covers
    <3> QED BY <3>2, <3>4, <3>5
  <2> QED BY <1>6, <2>1, <2>2 DEF Covers
<1> QED BY <1>2, <1>3, <1>4, <1>5, <1>6

\* The current stream comes last: the streams began at different times.
LEMMA EndKept ==
  ASSUME MeshTypeOK, RowsAreAppended, NEW plan, NEW item \in plan, NEW more, NEW upto,
         plan \subseteq Streams \X (0 .. MaxSeq), \A x \in plan : x[1] <= current,
         Oldest(item[1], plan), EndsWithCurrent(plan), more \subseteq {<<item[1], upto>>},
         (plan \ {item}) \cup more # {}
  PROVE  EndsWithCurrent((plan \ {item}) \cup more)
<1>1. PICK last \in plan : last[1] = current
  BY DEF EndsWithCurrent
<1>2. \A x \in (plan \ {item}) \cup more : \E y \in plan : x[1] = y[1]
  OBVIOUS
<1>3. \A x \in (plan \ {item}) \cup more : started[x[1]] <= started[current]
  BY <1>2 DEF EndsWithCurrent
<1>4. CASE last # item
  BY <1>1, <1>3, <1>4 DEF EndsWithCurrent
<1>5. CASE last = item
  <2>1. \A x \in plan : x[1] \in 1 .. current /\ started[x[1]] \in Int
    BY MeshParams, RowsParts DEF BegunStreams, MeshTypeOK
  <2>2. \A x \in plan : started[x[1]] = started[current]
    BY <1>1, <1>5, <2>1 DEF Oldest, EndsWithCurrent
  <2>3. \A s \in 1 .. current : started[s] = started[current] => s = current
    <3> SUFFICES ASSUME NEW s \in 1 .. current, started[s] = started[current] PROVE s = current
      OBVIOUS
    <3>1. current \in 1 .. current /\ current \in Int
      BY MeshParams DEF MeshTypeOK
    <3>2. started[s] = 2 * s \/ started[s] = 2 * s - 3
      BY RowsParts DEF BegunStreams
    <3>3. started[current] = 2 * current \/ started[current] = 2 * current - 3
      BY <3>1, RowsParts DEF BegunStreams
    <3> QED BY <3>1, <3>2, <3>3
  <2>4. \A x \in plan : x[1] = current
    BY <2>1, <2>2, <2>3
  <2> QED BY <1>2, <1>3, <2>4 DEF EndsWithCurrent
<1> QED BY <1>4, <1>5

LEMMA PageRelinked ==
  ASSUME MeshInv, NEW h \in MHosts, SendsPage(h)
  PROVE  Relinked(h)
<1>0. MeshTypeOK /\ RowsAreAppended /\ UNCHANGED <<dbVars, keepFrom, up, originVars>>
  BY DEF MeshInv, SendsPage, LinkOnly, originVars
<1>1. PICK l : l = link[h]
  OBVIOUS
<1>2. l \in Links /\ l.on /\ LinkAccounts(h, l)
  BY <1>0, <1>1, TypeFacts DEF MeshInv, SendsPage
<1>3. /\ l.plan \subseteq Streams \X (0 .. MaxSeq) /\ l.cursor \in 0 .. MaxSeq /\ l.wire \in Seq(SUBSET Records)
      /\ l.owed \subseteq Records /\ l.from \in ({0} \cup Streams) \X (0 .. MaxSeq)
  BY <1>2 DEF Links
<1>4. Owes(h, l) /\ (l.from[1] # 0 => Follows(h, l)) /\ \A x \in l.plan : x[1] <= current
  BY <1>2, LinkParts DEF Owes
<1>5. PICK item \in l.plan :
        /\ Oldest(item[1], l.plan)
        /\ \/ \E upto \in {item[2]} \cup SeqsOf(Origin, item[1]) :
              LET page == Between(Origin, item[1], item[2], upto)
                  more == IF Cardinality(page) = Page THEN {<<item[1], upto>>} ELSE {} IN
              /\ IsPage(Origin, item[1], item[2], upto, Page)
              /\ Tell(h, Link((l.plan \ {item}) \cup more, upto, l.cursor, Sent(l.wire, page), l.owed, l.from))
           \/ Tell(h, Link(l.plan \ {item}, item[2], l.cursor, l.wire, {}, <<0, 0>>))
  BY <1>1, Zenon DEF SendsPage
<1>6. CASE Tell(h, Link(l.plan \ {item}, item[2], l.cursor, l.wire, {}, <<0, 0>>))
  <2>1. PICK m : m = Link(l.plan \ {item}, item[2], l.cursor, l.wire, {}, <<0, 0>>)
    OBVIOUS
  <2>2. /\ l.plan \ {item} \subseteq Streams \X (0 .. MaxSeq) /\ item[2] \in 0 .. MaxSeq
        /\ <<0, 0>> \in ({0} \cup Streams) \X (0 .. MaxSeq)
    BY <1>3, <1>5, MeshParams, SMTT(30)
  <2>3. m \in Links
    BY <1>3, <2>1, <2>2 DEF Link, Links
  <2>4. m.on /\ m.plan = l.plan \ {item} /\ m.cursor = l.cursor /\ m.wire = l.wire /\ m.owed = {} /\ m.from = <<0, 0>>
    BY <2>1, Zenon DEF Link
  <2>5. Owes(h, m)
    BY <1>4, <2>4 DEF Owes, InFlight
  <2>6. LinkAccounts(h, m)
    BY <2>4, <2>5, LinkParts
  <2>7. LinkAccounts(h, m)'
    BY <1>0, <2>6, LinkSame
  <2>8. link' = [link EXCEPT ![h] = m]
    BY <1>6, <2>1 DEF Tell
  <2> QED BY <2>3, <2>7, <2>8 DEF Relinked
<1>7. ASSUME NEW upto, NEW page, NEW more, PageRead(item, upto, page, more),
             Tell(h, Link((l.plan \ {item}) \cup more, upto, l.cursor, Sent(l.wire, page), l.owed, l.from))
      PROVE  Relinked(h)
  <2>0. item \in l.plan /\ Oldest(item[1], l.plan) /\ (\A x \in l.plan : x[1] <= current)
    BY <1>4, <1>5
  <2>1. /\ item[1] \in Streams /\ item[2] \in 0 .. MaxSeq /\ upto \in 0 .. MaxSeq
        /\ more \subseteq {<<item[1], upto>>}
        /\ page \in SUBSET Records /\ page \subseteq rows[Origin]
        /\ item[2] <= chain[item[1]] => upto <= chain[item[1]]
        /\ \A r \in rows[Origin] : Covers(l.plan, r) => Covers((l.plan \ {item}) \cup more, r) \/ r \in page
    BY <1>0, <1>2, <2>0, <1>7, PlanLeft
  <2>2. PICK plan : plan = (l.plan \ {item}) \cup more
    OBVIOUS
  <2>3. plan \subseteq Streams \X (0 .. MaxSeq) /\ \A x \in plan : x[1] <= current
    BY <1>3, <1>4, <1>5, <2>1, <2>2
  <2>4. PICK wire : wire = Sent(l.wire, page)
    OBVIOUS
  <2>5. PICK m : m = Link(plan, upto, l.cursor, wire, l.owed, l.from)
    OBVIOUS
  <2>6. m.on /\ m.plan = plan /\ m.last = upto /\ m.cursor = l.cursor /\ m.wire = wire /\ m.owed = l.owed /\ m.from = l.from
    BY <2>5, Zenon DEF Link
  <2>7. wire \in Seq(SUBSET Records) /\ \A r : InFlight(m, r) <=> InFlight(l, r) \/ r \in page
    BY <1>3, <2>1, <2>4, <2>6, SentFlight, ZenonT(30)
  <2>8. m \in Links
    BY <1>3, <2>1, <2>3, <2>5, <2>7 DEF Link, Links
  <2>9. link' = [link EXCEPT ![h] = m]
    BY <1>7, <2>2, <2>4, <2>5 DEF Tell
  <2>10. \A r \in rows[Origin] : Done(h, r) \/ InFlight(l, r) \/ Covers(l.plan, r) =>
                                 Done(h, r) \/ InFlight(m, r) \/ Covers(m.plan, r)
    BY <2>1, <2>2, <2>6, <2>7
  <2>11. \A r \in page : r[2] <= chain[r[1]]
    BY <1>0, <2>1, RowsParts, MeshParams DEF RowsOf
  <2>12. Owes(h, m)
    BY <1>4, <2>3, <2>6, <2>7, <2>10, <2>11 DEF Owes
  <2>13. ASSUME m.from[1] # 0 PROVE Follows(h, m)
    <3>1. Follows(h, l) /\ EndsWithCurrent(l.plan)
      BY <1>4, <1>5, <2>6, <2>13 DEF Follows
    <3>2. m.plan # {} => EndsWithCurrent(m.plan)
      <4>1. more \subseteq {<<item[1], upto>>} /\ EndsWithCurrent(l.plan)
        BY <2>1, <3>1
      <4>2. (l.plan \ {item}) \cup more # {} => EndsWithCurrent((l.plan \ {item}) \cup more)
        BY <1>0, <1>3, <2>0, <4>1, EndKept, Zenon
      <4> QED BY <2>2, <2>6, <4>2
    <3>3. item[1] = current => upto <= chain[current]
      BY <1>5, <2>1, <3>1 DEF Follows
    <3>4. \A x \in m.plan : x[1] = current => x[2] <= chain[current]
      BY <2>1, <2>2, <2>6, <3>1, <3>3 DEF Follows
    <3>5. m.plan = {} => m.last <= chain[current]
      BY <2>2, <2>6, <3>1, <3>3 DEF EndsWithCurrent
    <3>6. \A r \in rows[Origin] : Promised(m, r) => Done(h, r) \/ InFlight(m, r) \/ Covers(m.plan, r)
      BY <1>5, <2>6, <2>10, <3>1 DEF Follows, Promised
    <3> QED BY <2>6, <3>1, <3>2, <3>4, <3>5, <3>6 DEF Follows
  <2>14. LinkAccounts(h, m)
    BY <2>12, <2>13, LinkParts
  <2>15. LinkAccounts(h, m)'
    BY <1>0, <2>14, LinkSame
  <2> QED BY <2>8, <2>9, <2>15 DEF Relinked
<1>8. CASE \E upto \in {item[2]} \cup SeqsOf(Origin, item[1]) :
              LET page == Between(Origin, item[1], item[2], upto)
                  more == IF Cardinality(page) = Page THEN {<<item[1], upto>>} ELSE {} IN
              /\ IsPage(Origin, item[1], item[2], upto, Page)
              /\ Tell(h, Link((l.plan \ {item}) \cup more, upto, l.cursor, Sent(l.wire, page), l.owed, l.from))
  <2>1. PICK upto, page, more :
          /\ PageRead(item, upto, page, more)
          /\ Tell(h, Link((l.plan \ {item}) \cup more, upto, l.cursor, Sent(l.wire, page), l.owed, l.from))
    BY <1>8, Zenon DEF PageRead
  <2> QED BY <1>7, <2>1
<1> QED BY <1>5, <1>6, <1>8

LEMMA LiveRelinked ==
  ASSUME MeshInv, NEW h \in MHosts, SendsLive(h)
  PROVE  Relinked(h)
<1>0. MeshTypeOK /\ RowsAreAppended /\ UNCHANGED <<dbVars, keepFrom, up, originVars>>
  BY DEF MeshInv, SendsLive, LinkOnly, originVars
<1>1. PICK l : l = link[h]
  OBVIOUS
<1>2. l \in Links /\ l.on /\ LinkAccounts(h, l) /\ l.plan = {} /\ l.cursor < chain[current]
  BY <1>0, <1>1, TypeFacts DEF MeshInv, SendsLive
<1>3. /\ l.last \in 0 .. MaxSeq /\ l.cursor \in 0 .. MaxSeq /\ l.wire \in Seq(SUBSET Records)
      /\ l.owed \subseteq Records /\ l.from \in ({0} \cup Streams) \X (0 .. MaxSeq)
  BY <1>2 DEF Links
<1>4. Owes(h, l) /\ (l.from[1] # 0 => Follows(h, l))
  BY <1>2, LinkParts
<1>5. /\ current \in Streams /\ current <= current /\ chain[current] \in 0 .. MaxSeq /\ chain[current] \in Int
      /\ l.cursor \in Int /\ l.last \in Int
  BY <1>0, <1>3, MeshParams, SMTT(30) DEF MeshTypeOK
<1>6. PICK next : next = l.cursor + 1 /\ next \in 0 .. MaxSeq /\ next <= chain[current] /\ next \in Int
  BY <1>2, <1>3, <1>5, MeshParams
\* Every record is done with or in flight, or comes after what was sent and broadcast.
<1>7. /\ \A r \in l.owed \cap rows[Origin] : Done(h, r) \/ InFlight(l, r)
      /\ l.from[1] # 0 => /\ l.from[1] = current /\ l.last <= chain[current]
                          /\ \A r \in rows[Origin] : Promised(l, r) =>
                               Done(h, r) \/ InFlight(l, r) \/ (r[2] > l.last /\ r[2] > l.cursor)
  BY <1>2, <1>4 DEF Owes, Follows, Covers
<1>8. ASSUME NEW cursor \in 0 .. MaxSeq, cursor <= chain[current], Tell(h, Resend(l, cursor)) PROVE Relinked(h)
  <2>1. PICK plan : plan = {<<current, l.last>>}
    OBVIOUS
  <2>2. PICK m : m = Link(plan, l.last, cursor, l.wire, l.owed, l.from)
    OBVIOUS
  <2>3. plan \subseteq Streams \X (0 .. MaxSeq) /\ \A x \in plan : x[1] = current /\ x[2] = l.last
    BY <1>3, <1>5, <2>1
  <2>4. m \in Links
    BY <1>3, <1>8, <2>2, <2>3 DEF Link, Links
  <2>5. m.on /\ m.plan = plan /\ m.last = l.last /\ m.cursor = cursor /\ m.wire = l.wire /\ m.owed = l.owed /\ m.from = l.from
    BY <2>2, Zenon DEF Link
  <2>6. link' = [link EXCEPT ![h] = m]
    BY <1>8, <2>1, <2>2 DEF Tell, Resend
  <2>7. \A r : InFlight(m, r) <=> InFlight(l, r)
    BY <2>5 DEF InFlight
  <2>8. Owes(h, m)
    BY <1>4, <1>5, <1>7, <1>8, <2>3, <2>5, <2>7 DEF Owes
  <2>9. ASSUME m.from[1] # 0 PROVE Follows(h, m)
    <3>1. EndsWithCurrent(m.plan) /\ m.plan # {}
      <4>1. started[current] <= started[current]
        <5>1. current \in 1 .. current /\ current \in Int
          BY <1>5, MeshParams
        <5>2. started[current] \in Int
          BY <1>0, <5>1, RowsParts DEF BegunStreams
        <5> QED BY <5>2
      <4> QED BY <2>1, <2>3, <2>5, <4>1 DEF EndsWithCurrent
    <3>2. \A r \in rows[Origin] : Promised(m, r) => Done(h, r) \/ InFlight(m, r) \/ Covers(m.plan, r)
      BY <1>7, <2>1, <2>5, <2>7, <2>9 DEF Promised, Covers
    <3> QED BY <1>7, <2>3, <2>5, <2>9, <3>1, <3>2 DEF Follows
  <2>10. LinkAccounts(h, m)
    BY <2>8, <2>9, LinkParts
  <2>11. LinkAccounts(h, m)'
    BY <1>0, <2>10, LinkSame
  <2> QED BY <2>4, <2>6, <2>11 DEF Relinked
\* A record that goes out as it is, or is skipped because it was sent.
<1>9. ASSUME NEW last \in 0 .. MaxSeq, NEW page \in SUBSET Records, \A r \in page : r[2] <= chain[r[1]],
             l.last <= last, last = l.last \/ last = next, next <= last,
             \A r \in rows[Origin] : r[1] = current /\ r[2] > l.last /\ r[2] <= last => r \in page,
             Tell(h, Link({}, last, next, Sent(l.wire, page), l.owed, l.from))
      PROVE  Relinked(h)
  <2>1. PICK wire : wire = Sent(l.wire, page)
    OBVIOUS
  <2>2. PICK m : m = Link({}, last, next, wire, l.owed, l.from)
    OBVIOUS
  <2>3. m.on /\ m.plan = {} /\ m.last = last /\ m.cursor = next /\ m.wire = wire /\ m.owed = l.owed /\ m.from = l.from
    BY <2>2, Zenon DEF Link
  <2>4. wire \in Seq(SUBSET Records) /\ \A r : InFlight(m, r) <=> InFlight(l, r) \/ r \in page
    BY <1>3, <1>9, <2>1, <2>3, SentFlight, ZenonT(30)
  <2>5. m \in Links
    BY <1>3, <1>6, <1>9, <2>2, <2>4 DEF Link, Links
  <2>6. link' = [link EXCEPT ![h] = m]
    BY <1>9, <2>1, <2>2 DEF Tell
  <2>7. Owes(h, m)
    BY <1>4, <1>6, <1>7, <1>9, <2>3, <2>4 DEF Owes
  <2>8. ASSUME m.from[1] # 0 PROVE Follows(h, m)
    <3>1. m.last <= chain[current] /\ m.from[1] = current
      BY <1>5, <1>6, <1>7, <1>9, <2>3, <2>8
    <3>2. ASSUME NEW r \in rows[Origin], Promised(m, r)
          PROVE  Done(h, r) \/ InFlight(m, r) \/ (r[2] > m.last /\ r[2] > m.cursor)
      <4>1. r[1] = current /\ Promised(l, r)
        BY <2>3, <3>1, <3>2 DEF Promised
      <4>2. r[2] \in Int /\ last \in Int
        <5>1. r \in Records
          BY <1>0, TypeFacts, MeshParams
        <5> QED BY <1>9, <5>1, RecordParts, MeshParams
      <4>3. CASE r[2] > last
        BY <1>6, <1>9, <2>3, <4>2, <4>3
      <4>4. CASE r[2] <= last
        BY <1>5, <1>7, <1>9, <2>3, <2>4, <2>8, <4>1, <4>2, <4>4
      <4> QED BY <4>2, <4>3, <4>4
    <3> QED BY <2>3, <3>1, <3>2 DEF Follows
  <2>9. LinkAccounts(h, m)
    BY <2>7, <2>8, LinkParts
  <2>10. LinkAccounts(h, m)'
    BY <1>0, <2>9, LinkSame
  <2> QED BY <2>5, <2>6, <2>10 DEF Relinked
<1>10. CASE Lags(l) /\ Tell(h, Resend(l, chain[current] - Channel))
  <2>1. chain[current] - Channel > l.cursor \/ chain[current] - l.cursor > Channel
    BY <1>10 DEF Lags
  <2>2. chain[current] - Channel \in 0 .. MaxSeq /\ chain[current] - Channel <= chain[current]
    BY <1>3, <1>5, <2>1, MeshParams, SMTT(30)
  <2> QED BY <1>8, <1>10, <2>2
<1>11. CASE next <= l.last /\ Tell(h, Link({}, l.last, next, l.wire, l.owed, l.from))
  <2>1. Sent(l.wire, {}) = l.wire
    BY DEF Sent
  <2>2. \A r \in rows[Origin] : r[1] = current /\ r[2] > l.last /\ r[2] <= l.last => r \in {}
    <3> SUFFICES ASSUME NEW r \in rows[Origin] PROVE ~(r[2] > l.last /\ r[2] <= l.last)
      OBVIOUS
    <3>1. r[2] \in Int
      BY <1>0, TypeFacts, RecordParts, MeshParams
    <3> QED BY <1>5, <3>1
  <2>3. l.last <= l.last /\ {} \in SUBSET Records
    BY <1>5
  <2> QED BY <1>3, <1>9, <1>11, <2>1, <2>2, <2>3
<1>12. CASE next = l.last + 1 /\ Tell(h, Link({}, next, next, Append(l.wire, {<<current, next>>}), l.owed, l.from))
  <2>1. PICK page : page = {<<current, next>>}
    OBVIOUS
  <2>2. Sent(l.wire, page) = Append(l.wire, page) /\ page \in SUBSET Records
    <3>1. next \in 1 .. MaxSeq
      BY <1>3, <1>6, MeshParams
    <3>2. <<current, next>> \in Records
      BY <1>5, <3>1, MeshParams
    <3> QED BY <2>1, <3>2 DEF Sent
  <2>3. \A r \in rows[Origin] : r[1] = current /\ r[2] > l.last /\ r[2] <= next => r \in page
    <3> SUFFICES ASSUME NEW r \in rows[Origin], r[1] = current, r[2] > l.last, r[2] <= next PROVE r \in page
      OBVIOUS
    <3>1. r \in Records
      BY <1>0, TypeFacts, MeshParams
    <3>2. r[2] \in Int /\ r = <<current, r[2]>>
      BY <3>1, RecordParts
    <3>3. r[2] = next
      BY <1>5, <1>6, <1>12, <3>2
    <3> QED BY <2>1, <3>2, <3>3
  <2>4. l.last <= next /\ next <= next /\ \A r \in page : r[2] <= chain[r[1]]
    BY <1>5, <1>6, <1>12, <2>1
  <2> QED BY <1>6, <1>9, <1>12, <2>1, <2>2, <2>3, <2>4
<1>13. CASE Tell(h, Resend(l, next))
  BY <1>6, <1>8, <1>13
<1> QED BY <1>1, <1>6, <1>10, <1>11, <1>12, <1>13 DEF SendsLive

LEMMA ReceivesRelinked ==
  ASSUME MeshInv, NEW h \in MHosts, Receives(h), RowsAreAppended', rows'[Origin] \subseteq Records
  PROVE  Relinked(h)
<1>0. MeshTypeOK /\ RowsAreAppended /\ UNCHANGED <<keepFrom, up, current, started, chain, stamps>>
  BY DEF MeshInv, Receives, originVars
<1>1. PICK l : l = link[h]
  OBVIOUS
<1>2. l \in Links /\ l.on /\ LinkAccounts(h, l) /\ l.wire # <<>>
  BY <1>0, <1>1, TypeFacts DEF MeshInv, Receives
<1>3. /\ l.plan \subseteq Streams \X (0 .. MaxSeq)
      /\ l.last \in 0 .. MaxSeq /\ l.cursor \in 0 .. MaxSeq /\ l.wire \in Seq(SUBSET Records)
      /\ l.owed \subseteq Records /\ l.from \in ({0} \cup Streams) \X (0 .. MaxSeq)
  BY <1>2 DEF Links
<1>4. PICK x \in Head(l.wire) :
           /\ Copies({x}) /\ Inserted(h, {x})
           /\ Tell(h, Link(l.plan, l.last, l.cursor, Received(l.wire, x), l.owed, l.from))
  BY <1>1, ReceivesInserts
<1>5. PICK wire : wire = Received(l.wire, x)
  OBVIOUS
<1>6. PICK m : m = Link(l.plan, l.last, l.cursor, wire, l.owed, l.from)
  OBVIOUS
<1>7. m.on /\ m.plan = l.plan /\ m.last = l.last /\ m.cursor = l.cursor /\ m.wire = wire /\ m.owed = l.owed /\ m.from = l.from
  BY <1>6, Zenon DEF Link
<1>8. /\ wire \in Seq(SUBSET Records)
      /\ \A r : InFlight(m, r) => InFlight(l, r)
      /\ \A r : InFlight(l, r) => InFlight(m, r) \/ r = x
  BY <1>2, <1>3, <1>4, <1>5, <1>7, ReceivedFlight
<1>9. m \in Links
  BY <1>3, <1>6, <1>8 DEF Link, Links
<1>10. link' = [link EXCEPT ![h] = m]
  BY <1>4, <1>5, <1>6 DEF Tell
<1>11. {x} \in SUBSET Records /\ x \in Records /\ x[2] <= chain[x[1]]
  BY <1>4 DEF Copies
<1>12. \A g \in MHosts : Fresh(g) /\ Keeps(g)
  BY <1>0, <1>4, <1>11, InsertedKeeps
<1>13. Done(h, x)'
  <2>1. x \in rows'[h] \/ Refused(h, x)
    BY <1>0, <1>4, <1>11, InsertedFacts
  <2> QED BY <1>11, <1>12, <2>1 DEF Keeps, Done
<1>14. {h, Origin} \subseteq up'
  BY <1>0, <1>2 DEF LinkAccounts
<1>15. LinkAccounts(h, l)'
  BY <1>0, <1>2, <1>12, <1>14, LinkFrame, MeshParams
<1>16. Owes(h, l)' /\ (l.from[1] # 0 => Follows(h, l)')
  BY <1>2, <1>15, LinkParts
<1>17. \A r : InFlight(l, r)' <=> InFlight(l, r)
  BY DEF InFlight
<1>18. \A r : InFlight(m, r)' <=> InFlight(m, r)
  BY DEF InFlight
<1>19. Owes(h, m)'
  BY <1>7, <1>8, <1>13, <1>16, <1>17, <1>18 DEF Owes
<1>20. l.from[1] # 0 => Follows(h, m)'
  BY <1>7, <1>8, <1>13, <1>16, <1>17, <1>18 DEF Follows, Promised
<1>21. LinkAccounts(h, m)'
  BY <1>7, <1>19, <1>20, LinkParts
<1> QED BY <1>9, <1>10, <1>21 DEF Relinked

LEMMA BreaksRelinked ==
  ASSUME NEW h, LinkBreaks(h)
  PROVE  Relinked(h)
<1>1. link' = [link EXCEPT ![h] = NoLink]
  BY DEF LinkBreaks, Tell
<1>2. LinkAccounts(h, NoLink)'
  BY NoLinkFacts DEF LinkAccounts, NoLink, Link
<1> QED BY <1>1, <1>2, NoLinkFacts DEF Relinked

-----------------------------------------------------------------------------
(* The mesh.                                                               *)

LEMMA RoundIs ==
  ASSUME NEW h, NEW w, w = round'[h], RoundAccounts(h, w)'
  PROVE  RoundAccounts(h, round[h])'
BY DEF RoundAccounts, Ahead, Done, Refused

LEMMA LinkIs ==
  ASSUME NEW h, NEW l, l = link'[h], LinkAccounts(h, l)'
  PROVE  LinkAccounts(h, link[h])'
BY DEF LinkAccounts, Covers, EndsWithCurrent, InFlight, Promised, Done, Refused

\* A round, and a link, of a host that takes no step with it.
LEMMA RoundLeft ==
  ASSUME MeshInv, DbStep, NEW g \in MHosts, round'[g] \in {round[g], NoRound},
         round'[g].on => {g, round[g].peer} \subseteq up' /\ (current' = current \/ g # Origin)
  PROVE  RoundAccounts(g, round[g])'
<1>0. MeshTypeOK /\ RowsAreAppended
  BY DEF MeshInv
<1>1. CASE round'[g] = NoRound
  <2>1. PICK w : w = NoRound
    OBVIOUS
  <2>2. RoundAccounts(g, w)'
    BY <2>1, NoRoundFacts DEF RoundAccounts
  <2> QED BY <1>1, <2>1, <2>2, RoundIs
<1>2. CASE round'[g] = round[g]
  <2>1. PICK w : w = round[g]
    OBVIOUS
  <2>2. w \in Rounds /\ RoundAccounts(g, w)
    BY <1>0, <2>1, TypeFacts DEF MeshInv
  <2>3. w.on => /\ {g, w.peer} \subseteq up' /\ Fresh(w.peer) /\ Keeps(g)
                /\ current' = current \/ g # Origin
    <3> SUFFICES ASSUME w.on PROVE {g, w.peer} \subseteq up' /\ Fresh(w.peer) /\ Keeps(g)
                                   /\ (current' = current \/ g # Origin)
      OBVIOUS
    <3>1. {g, w.peer} \subseteq up
      BY <2>2 DEF RoundAccounts
    <3>2. {g, w.peer} \subseteq up' /\ (current' = current \/ g # Origin)
      BY <1>2, <2>1
    <3> QED BY <1>0, <3>1, <3>2, DbKeeps
  <2>4. RoundAccounts(g, w)'
    BY <1>0, <2>2, <2>3, RoundFrame
  <2> QED BY <1>2, <2>1, <2>4, RoundIs
<1> QED BY <1>1, <1>2

LEMMA LinkLeft ==
  ASSUME MeshInv, DbStep, NEW g \in MHosts, link'[g] \in {link[g], NoLink},
         \/ link'[g].on => {g, Origin} \subseteq up' /\ UNCHANGED <<current, started, chain>>
         \/ \E t \in 0 .. mnow : Append1(t)
  PROVE  LinkAccounts(g, link[g])'
<1>0. MeshTypeOK /\ RowsAreAppended /\ RowsAreAppended' /\ rows'[Origin] \subseteq Records
  BY RowsNext, DbTypes, MeshParams DEF MeshInv
<1>1. CASE link'[g] = NoLink
  <2>1. PICK l : l = NoLink
    OBVIOUS
  <2>2. LinkAccounts(g, l)'
    BY <2>1, NoLinkFacts DEF LinkAccounts
  <2> QED BY <1>1, <2>1, <2>2, LinkIs
<1>2. CASE link'[g] = link[g]
  <2>1. PICK l : l = link[g]
    OBVIOUS
  <2>2. l \in Links /\ LinkAccounts(g, l)
    BY <1>0, <2>1, TypeFacts DEF MeshInv
  <2>3. CASE \E t \in 0 .. mnow : Append1(t)
    <3>1. LinkAccounts(g, l)'
      BY <1>0, <2>2, <2>3, LinkAppend
    <3> QED BY <1>2, <2>1, <3>1, LinkIs
  <2>4. CASE link'[g].on => {g, Origin} \subseteq up' /\ UNCHANGED <<current, started, chain>>
    <3>1. l.on => /\ {g, Origin} \subseteq up' /\ Fresh(Origin) /\ Keeps(g)
                  /\ UNCHANGED <<current, started, chain>>
      <4> SUFFICES ASSUME l.on PROVE {g, Origin} \subseteq up' /\ Fresh(Origin) /\ Keeps(g)
                                     /\ UNCHANGED <<current, started, chain>>
        OBVIOUS
      <4>1. {g, Origin} \subseteq up
        BY <2>2 DEF LinkAccounts
      <4>2. {g, Origin} \subseteq up' /\ UNCHANGED <<current, started, chain>>
        BY <1>2, <2>1, <2>4
      <4> QED BY <1>0, <4>1, <4>2, DbKeeps
    <3>2. LinkAccounts(g, l)'
      BY <1>0, <2>2, <3>1, LinkFrame
    <3> QED BY <1>2, <2>1, <3>2, LinkIs
  <2> QED BY <2>3, <2>4
<1> QED BY <1>1, <1>2

\* What a step may do to the rounds and to the links.
LEMMA RoundsNext ==
  ASSUME MeshInv, [MeshNext]_meshVars, DbStep
  PROVE  round' \in [MHosts -> Rounds] /\ \A g \in MHosts : RoundAccounts(g, round[g])'
<1>0. /\ MeshTypeOK /\ round \in [MHosts -> Rounds] /\ up \subseteq MHosts
      /\ \A g \in MHosts : round[g].on => {g, round[g].peer} \subseteq up
  BY DEF MeshInv, MeshTypeOK, RoundAccounts
<1>1. CASE UNCHANGED <<round, up, current>>
  BY <1>0, <1>1, RoundLeft
<1>2. ASSUME NEW h \in MHosts, Turned(h), UNCHANGED <<up, current>>
      PROVE  round' \in [MHosts -> Rounds] /\ \A g \in MHosts : RoundAccounts(g, round[g])'
  <2>1. PICK w \in Rounds : round' = [round EXCEPT ![h] = w] /\ RoundAccounts(h, w)'
    BY <1>2 DEF Turned
  <2>2. round' \in [MHosts -> Rounds] /\ round'[h] = w /\ \A g \in MHosts : g # h => round'[g] = round[g]
    BY <1>0, <2>1
  <2>3. RoundAccounts(h, round[h])'
    BY <2>1, <2>2, RoundIs
  <2>4. \A g \in MHosts : g # h => RoundAccounts(g, round[g])'
    BY <1>0, <1>2, <2>2, RoundLeft
  <2> QED BY <2>2, <2>3, <2>4
<1>3. ASSUME NEW h \in MHosts, \/ \E p \in MHosts : RoundStarts(h, p)
                               \/ RoundStream(h) \/ RoundFetches(h) \/ RoundEnds(h)
      PROVE  round' \in [MHosts -> Rounds] /\ \A g \in MHosts : RoundAccounts(g, round[g])'
  <2>1. Turned(h)
    BY <1>3, StartsTurned, StreamTurned, FetchesTurned, EndsTurned
  <2>2. UNCHANGED <<up, current>>
    BY <1>3 DEF RoundStarts, RoundStream, RoundFetches, RoundEnds, RoundOnly, originVars
  <2> QED BY <1>2, <2>1, <2>2
<1>4. ASSUME NEW h \in MHosts, Stop(h)
      PROVE  round' \in [MHosts -> Rounds] /\ \A g \in MHosts : RoundAccounts(g, round[g])'
  <2>1. /\ round' = [g \in MHosts |-> IF h \in {g, round[g].peer} THEN NoRound ELSE round[g]]
        /\ up' = up \ {h} /\ current' = current
    BY <1>4 DEF Stop, originVars
  <2>2. \A g \in MHosts : IF h \in {g, round[g].peer} THEN round'[g] = NoRound ELSE round'[g] = round[g]
    BY <2>1
  <2>3. round' \in [MHosts -> Rounds]
    BY <1>0, <2>1, NoRoundFacts
  <2>4. ASSUME NEW g \in MHosts PROVE RoundAccounts(g, round[g])'
    <3>1. round'[g] \in {round[g], NoRound}
      BY <2>2
    <3>2. round'[g].on => {g, round[g].peer} \subseteq up' /\ (current' = current \/ g # Origin)
      BY <1>0, <2>1, <2>2, NoRoundFacts
    <3> QED BY <3>1, <3>2, RoundLeft
  <2> QED BY <2>3, <2>4
<1>5. ASSUME NEW h \in MHosts, Start(h)
      PROVE  round' \in [MHosts -> Rounds] /\ \A g \in MHosts : RoundAccounts(g, round[g])'
  <2>1. round' = round /\ up' = up \cup {h} /\ h \notin up /\ (h # Origin => current' = current)
    BY <1>5 DEF Start
  <2>2. \A g \in MHosts : round'[g].on => {g, round[g].peer} \subseteq up' /\ (current' = current \/ g # Origin)
    BY <1>0, <2>1
  <2> QED BY <1>0, <2>1, <2>2, RoundLeft
<1>6. CASE UNCHANGED meshVars
  BY <1>1, <1>6 DEF meshVars
<1>7. CASE (\E t \in 0 .. mnow : Append1(t)) \/ Passes
  BY <1>1, <1>7 DEF Append1, Passes, originVars
<1>8. CASE \E h \in MHosts : Enforce(h) \/ Receives(h) \/ Rebuild(h)
  BY <1>1, <1>8 DEF Enforce, Receives, Rebuild, originVars
<1>9. CASE \E h \in MHosts : LinkOpens(h) \/ SendsPage(h) \/ SendsLive(h) \/ LinkBreaks(h)
  BY <1>1, <1>9 DEF LinkOpens, SendsPage, SendsLive, LinkBreaks, LinkOnly, originVars
<1> QED BY <1>3, <1>4, <1>5, <1>6, <1>7, <1>8, <1>9 DEF MeshNext

LEMMA LinksNext ==
  ASSUME MeshInv, [MeshNext]_meshVars, DbStep
  PROVE  link' \in [MHosts -> Links] /\ \A g \in MHosts : LinkAccounts(g, link[g])'
<1>0. /\ MeshTypeOK /\ link \in [MHosts -> Links] /\ up \subseteq MHosts
      /\ \A g \in MHosts : link[g].on => {g, Origin} \subseteq up
      /\ RowsAreAppended' /\ rows'[Origin] \subseteq Records
  BY RowsNext, DbTypes, MeshParams DEF MeshInv, MeshTypeOK, LinkAccounts
<1>1. CASE UNCHANGED <<link, up, current, started, chain>>
  BY <1>0, <1>1, LinkLeft
<1>2. ASSUME NEW h \in MHosts, Relinked(h), UNCHANGED <<up, current, started, chain>>
      PROVE  link' \in [MHosts -> Links] /\ \A g \in MHosts : LinkAccounts(g, link[g])'
  <2>1. PICK l \in Links : link' = [link EXCEPT ![h] = l] /\ LinkAccounts(h, l)'
    BY <1>2 DEF Relinked
  <2>2. link' \in [MHosts -> Links] /\ link'[h] = l /\ \A g \in MHosts : g # h => link'[g] = link[g]
    BY <1>0, <2>1
  <2>3. LinkAccounts(h, link[h])'
    BY <2>1, <2>2, LinkIs
  <2>4. \A g \in MHosts : g # h => LinkAccounts(g, link[g])'
    BY <1>0, <1>2, <2>2, LinkLeft
  <2> QED BY <2>2, <2>3, <2>4
<1>3. ASSUME NEW h \in MHosts, LinkOpens(h) \/ SendsPage(h) \/ SendsLive(h) \/ Receives(h) \/ LinkBreaks(h)
      PROVE  link' \in [MHosts -> Links] /\ \A g \in MHosts : LinkAccounts(g, link[g])'
  <2>1. Relinked(h)
    BY <1>0, <1>3, OpensRelinked, PageRelinked, LiveRelinked, ReceivesRelinked, BreaksRelinked
  <2>2. UNCHANGED <<up, current, started, chain>>
    BY <1>3 DEF LinkOpens, SendsPage, SendsLive, Receives, LinkBreaks, LinkOnly, originVars
  <2> QED BY <1>2, <2>1, <2>2
<1>4. ASSUME NEW h \in MHosts, Stop(h)
      PROVE  link' \in [MHosts -> Links] /\ \A g \in MHosts : LinkAccounts(g, link[g])'
  <2>1. /\ link' = [g \in MHosts |-> IF h \in {g, Origin} THEN NoLink ELSE link[g]]
        /\ up' = up \ {h} /\ UNCHANGED <<current, started, chain>>
    BY <1>4 DEF Stop, originVars
  <2>2. \A g \in MHosts : IF h \in {g, Origin} THEN link'[g] = NoLink ELSE link'[g] = link[g]
    BY <2>1
  <2>3. link' \in [MHosts -> Links]
    BY <1>0, <2>1, NoLinkFacts
  <2>4. ASSUME NEW g \in MHosts PROVE LinkAccounts(g, link[g])'
    <3>1. link'[g] \in {link[g], NoLink}
      BY <2>2
    <3>2. link'[g].on => {g, Origin} \subseteq up' /\ UNCHANGED <<current, started, chain>>
      BY <1>0, <2>1, <2>2, NoLinkFacts
    <3> QED BY <3>1, <3>2, LinkLeft
  <2> QED BY <2>3, <2>4
<1>5. ASSUME NEW h \in MHosts, Start(h)
      PROVE  link' \in [MHosts -> Links] /\ \A g \in MHosts : LinkAccounts(g, link[g])'
  <2>1. /\ link' = link /\ up' = up \cup {h} /\ h \notin up
        /\ h # Origin => UNCHANGED <<current, started>>
        /\ chain' = chain
    BY <1>5 DEF Start
  <2>2. \A g \in MHosts : link'[g].on => {g, Origin} \subseteq up' /\ UNCHANGED <<current, started, chain>>
    BY <1>0, <2>1
  <2> QED BY <1>0, <2>1, <2>2, LinkLeft
<1>6. CASE UNCHANGED meshVars
  BY <1>1, <1>6 DEF meshVars
<1>7. CASE \E t \in 0 .. mnow : Append1(t)
  <2>1. link' = link
    BY <1>7 DEF Append1
  <2> QED BY <1>0, <1>7, <2>1, LinkLeft
<1>8. CASE Passes
  BY <1>1, <1>8 DEF Passes, originVars
<1>9. CASE \E h \in MHosts : Enforce(h) \/ Rebuild(h)
  BY <1>1, <1>9 DEF Enforce, Rebuild, originVars
<1>10. ASSUME NEW h \in MHosts, \/ \E p \in MHosts : RoundStarts(h, p)
                                \/ RoundStream(h) \/ RoundFetches(h) \/ RoundEnds(h)
       PROVE  UNCHANGED <<link, up, current, started, chain>>
  BY <1>10 DEF RoundStarts, RoundStream, RoundFetches, RoundEnds, RoundOnly, originVars
<1> QED BY <1>1, <1>3, <1>4, <1>5, <1>6, <1>7, <1>8, <1>9, <1>10 DEF MeshNext

LEMMA MeshInitInv == MeshInit => MeshInv
<1> SUFFICES ASSUME MeshInit PROVE MeshInv
  OBVIOUS
<1>1. MeshTypeOK
  <2>1. \A f : f = [s \in Streams |-> NoRow] => f \in [Streams -> {NoRow} \cup 0 .. MaxSeq]
    OBVIOUS
  <2>2. floors \in [MHosts -> [Streams -> {NoRow} \cup 0 .. MaxSeq]]
    BY MeshParams DEF MeshInit
  <2>3. started \in Seq(Int) /\ Len(started) = 1
    BY DEF MeshInit
  <2>4. link \in [MHosts -> Links] /\ round \in [MHosts -> Rounds]
    BY NoLinkFacts, NoRoundFacts DEF MeshInit
  <2>5. rows \in [MHosts -> SUBSET Records] /\ ever \in [MHosts -> SUBSET Records]
    BY DEF MeshInit
  <2> QED BY <2>2, <2>3, <2>4, <2>5, MeshParams DEF MeshInit, MeshTypeOK
<1>2. BegunStreams
  BY MeshParams DEF MeshInit, BegunStreams
<1>3. OwnRows
  BY MeshParams DEF MeshInit, OwnRows
<1>4. \A h \in MHosts : RowsOf(h)
  BY MeshParams DEF MeshInit, RowsOf
<1>5. RowsAreAppended
  BY <1>2, <1>3, <1>4, RowsParts
<1>6. \A h \in MHosts : RoundAccounts(h, round[h]) /\ LinkAccounts(h, link[h])
  BY NoLinkFacts, NoRoundFacts DEF MeshInit
<1> QED BY <1>1, <1>5, <1>6 DEF MeshInv

LEMMA MeshNextInv == MeshInv /\ [MeshNext]_meshVars => MeshInv'
<1> SUFFICES ASSUME MeshInv, [MeshNext]_meshVars PROVE MeshInv'
  OBVIOUS
<1>0. MeshTypeOK /\ RowsAreAppended /\ DbStep
  BY DbSteps DEF MeshInv
<1>1. link' \in [MHosts -> Links] /\ \A g \in MHosts : LinkAccounts(g, link[g])'
  BY <1>0, LinksNext
<1>2. round' \in [MHosts -> Rounds] /\ \A g \in MHosts : RoundAccounts(g, round[g])'
  BY <1>0, RoundsNext
<1>3. RowsAreAppended'
  BY <1>0, RowsNext
<1>4. /\ chain' \in [Streams -> 0 .. MaxSeq] /\ stamps' \in [Records -> Nat] /\ mnow' \in Nat
      /\ up' \subseteq MHosts /\ current' \in Streams
      /\ started' \in Seq(Int) /\ Len(started') = current'
  BY <1>0, ChainGrows
<1>5. /\ rows' \in [MHosts -> SUBSET Records] /\ ever' \in [MHosts -> SUBSET Records]
      /\ floors' \in [MHosts -> [Streams -> {NoRow} \cup 0 .. MaxSeq]] /\ keepFrom' \in [MHosts -> Nat]
  BY <1>0, DbTypes
<1>6. MeshTypeOK'
  BY <1>1, <1>2, <1>4, <1>5, Zenon DEF MeshTypeOK, Streams, Records, NoRow, Links, Rounds
<1> QED BY <1>1, <1>2, <1>3, <1>6 DEF MeshInv

\* The mesh's inductive invariant: every round and every link accounts for
\* what it began with, for any hosts, pages, channel, streams and retention.
THEOREM MeshAccounts == MeshSpec => []MeshInv
BY MeshInitInv, MeshNextInv, PTL DEF MeshSpec

\* When a round of catch-up has come through uncut, the host has or refuses
\* all the peer held when it began and still holds; when a link has sent all
\* there is, the peer has or refuses all it was opened for (catch_up_with,
\* feed).
THEOREM CopiesAreComplete == MeshSpec => []CopiesComplete
<1>1. MeshInv => RoundLeavesNoHole
  <2> SUFFICES ASSUME MeshInv, NEW h \in MHosts, Through(round[h]), ~round[h].cut,
                      NEW r \in round[h].seen \cap rows[round[h].peer]
               PROVE  Done(h, r) \/ (h = Origin /\ r[1] = current)
    BY DEF RoundLeavesNoHole
  <2>1. RoundAccounts(h, round[h]) /\ round[h].on /\ round[h].todo = {} /\ round[h].ranges = {}
    BY DEF MeshInv, Through
  <2> QED BY <2>1 DEF RoundAccounts, Ahead
<1>2. MeshInv => LinkLeavesNoGap
  <2> SUFFICES ASSUME MeshInv, NEW h \in MHosts, link[h].on, link[h].plan = {}, link[h].wire = <<>>,
                      link[h].cursor = chain[current], NEW r \in rows[Origin],
                      r \in link[h].owed \/ Promised(link[h], r)
               PROVE  Done(h, r)
    BY DEF LinkLeavesNoGap
  <2>1. PICK l : l = link[h]
    OBVIOUS
  <2>2. Owes(h, l) /\ (l.from[1] # 0 => Follows(h, l))
    BY <2>1, LinkParts DEF MeshInv
  <2>3. ~InFlight(l, r) /\ ~Covers(l.plan, r)
    BY <2>1 DEF InFlight, Covers
  <2>4. CASE r \in l.owed
    BY <2>2, <2>3, <2>4 DEF Owes
  <2>5. CASE Promised(l, r)
    <3>1. r \in Records /\ MeshTypeOK /\ RowsOf(Origin)
      BY TypeFacts, MeshParams, RowsParts DEF MeshInv
    <3>2. r[1] \in Streams /\ r[2] \in Int /\ r[2] <= chain[r[1]]
      BY <3>1, RecordParts DEF RowsOf
    <3>3. l.from[1] # 0 /\ Follows(h, l)
      BY <2>2, <2>5, <3>2, MeshParams DEF Promised
    <3>4. r[1] = current /\ chain[current] \in Int
      BY <2>5, <3>1, <3>3, MeshParams DEF Promised, Follows, MeshTypeOK
    <3>5. ~(r[2] > l.cursor)
      BY <2>1, <3>2, <3>4
    <3> QED BY <2>3, <2>5, <3>3, <3>5 DEF Follows
  <2> QED BY <2>1, <2>4, <2>5
<1>3. MeshInv => CopiesComplete
  BY <1>1, <1>2 DEF CopiesComplete
<1> QED BY <1>3, MeshAccounts, PTL

\* A database never takes a record it has held: what retention deleted is not
\* copied back from a peer that still has it (insert_copies, enforce).
THEOREM StoredOnlyOnce == MeshSpec => StoredOnce
<1>1. MeshInv /\ [MeshNext]_meshVars => [\A h \in MHosts : (rows'[h] \ rows[h]) \cap ever[h] = {}]_meshVars
  <2> SUFFICES ASSUME MeshInv, MeshNext PROVE \A h \in MHosts : (rows'[h] \ rows[h]) \cap ever[h] = {}
    OBVIOUS
  <2>1. MeshTypeOK /\ RowsAreAppended /\ DbStep
    BY DbSteps DEF MeshInv
  <2> QED BY <2>1, DbKeeps
<1> QED BY <1>1, MeshAccounts, PTL DEF MeshSpec, StoredOnce

-----------------------------------------------------------------------------
(* Updates: the steps of the installers.                                   *)

InDirs(f) == f \in [Hosts -> [Dirs -> Installs]]

\* One directory of one host is written.
LEMMA DirWritten ==
  ASSUME InDirs(install), NEW h \in Hosts, NEW k \in Dirs, NEW i \in Installs,
         install' = [install EXCEPT ![h][k] = i]
  PROVE  /\ InDirs(install')
         /\ install'[h][k] = i
         /\ \A g \in Hosts, q \in Dirs : <<g, q>> # <<h, k>> => install'[g][q] = install[g][q]
<1>1. install' = [install EXCEPT ![h] = [install[h] EXCEPT ![k] = i]]
  OBVIOUS
<1>2. install[h] \in [Dirs -> Installs]
  BY DEF InDirs
<1>3. [install[h] EXCEPT ![k] = i] \in [Dirs -> Installs]
  BY <1>2
<1>4. \A q \in Dirs : [install[h] EXCEPT ![k] = i][q] = IF q = k THEN i ELSE install[h][q]
  BY <1>2
<1>5. \A g \in Hosts : install'[g] = IF g = h THEN [install[h] EXCEPT ![k] = i] ELSE install[g]
  BY <1>1 DEF InDirs
<1>6. InDirs(install')
  BY <1>1, <1>3 DEF InDirs
<1> QED
  BY <1>4, <1>5, <1>6

\* The fields of an install.
LEMMA InstallFields ==
  ASSUME NEW i \in Installs
  PROVE  /\ i.settled \in BOOLEAN /\ i.sha \in Bundles \cup {NoBundle} /\ i.after \in Builds
         /\ i.after.current \in Bundles \cup {NoBundle} /\ i.after.previous \in Bundles \cup {NoBundle}
         /\ i.state \in {"none", "fetching", "orphaned", "installing", "upgraded", "exited", "failed"}
BY DEF Installs, Builds

\* What an installer writes is an install.
LEMMA StateMoves ==
  ASSUME NEW i \in Installs, NEW s \in {"installing", "upgraded", "exited", "failed", "orphaned"}, NEW j,
         j = [i EXCEPT !.state = s]
  PROVE  j \in Installs /\ j.state = s /\ j.settled = i.settled /\ j.sha = i.sha /\ j.after = i.after
BY DEF Installs

LEMMA SettledMoves ==
  ASSUME NEW i \in Installs, NEW j, j = [i EXCEPT !.settled = TRUE]
  PROVE  j \in Installs /\ j.state = i.state /\ j.settled /\ j.sha = i.sha /\ j.after = i.after
BY DEF Installs

LEMMA OrphanMoves ==
  ASSUME NEW i \in Installs, NEW j, j = Orphaned(i)
  PROVE  /\ j \in Installs /\ j.settled = i.settled /\ j.sha = i.sha /\ j.after = i.after
         /\ j.state = IF i.state = "fetching" THEN "orphaned" ELSE i.state
<1>1. CASE i.state = "fetching"
  BY <1>1, StateMoves DEF Orphaned
<1>2. CASE i.state # "fetching"
  BY <1>2 DEF Orphaned
<1> QED
  BY <1>1, <1>2

LEMMA NewInstall ==
  ASSUME NEW b \in Bundles \cup {NoBundle}
  PROVE  LET j == [NoInstall EXCEPT !.state = "fetching", !.sha = b] IN
         j \in Installs /\ j.state = "fetching" /\ ~j.settled /\ j.sha = b
BY DEF NoInstall, Installs, Builds

\* Nothing but `settled` of an install differs.
Alike(j, i) == j.state = i.state /\ j.sha = i.sha /\ j.after = i.after

\* How the installs of a host may change in a step: a status settles them, the
\* package manager moves on, a restart orphans, and at most one is begun.
Settling(H, k) ==
    /\ running' = running
    /\ \A h \in Hosts : installed'[h] = IF h \in H /\ Settles(h, k) THEN install[h][k].after ELSE installed[h]
    /\ \A h \in Hosts, q \in Dirs :
         /\ Alike(install'[h][q], install[h][q])
         /\ install'[h][q].settled <=> install[h][q].settled \/ (h \in H /\ q = k /\ Settles(h, k))
Beginning(h, k, b) ==
    /\ running' = running /\ installed' = installed
    /\ install[h][k].state = "none"
    /\ install'[h][k].state = "fetching" /\ ~install'[h][k].settled /\ install'[h][k].sha = b
    /\ \A g \in Hosts, q \in Dirs : <<g, q>> # <<h, k>> => install'[g][q] = install[g][q]

\* Installer::status settles what has exited, and records it.
LEMMA StatusStep ==
  ASSUME HostsTyped, NEW H \in SUBSET Hosts, NEW k \in Dirs, Status(H, k)
  PROVE  HostsTyped' /\ Settling(H, k)
<1>1. \A h \in Hosts : installed'[h] = IF h \in H /\ Settles(h, k) THEN install[h][k].after ELSE installed[h]
  BY DEF Status, InstalledAfter
<1>2. \A h \in Hosts : install[h][k] \in Installs /\ install[h][k].after \in Builds
  BY InstallFields DEF HostsTyped
<1>3. installed' \in [Hosts -> Builds]
  BY <1>1, <1>2 DEF HostsTyped, Status
<1>4. \A h \in Hosts : [install[h] EXCEPT ![k] = [@ EXCEPT !.settled = TRUE]] \in [Dirs -> Installs]
  BY <1>2, SettledMoves DEF HostsTyped
<1>5. \A h \in Hosts : install'[h] =
          IF h \in H /\ Settles(h, k) THEN [install[h] EXCEPT ![k] = [@ EXCEPT !.settled = TRUE]] ELSE install[h]
  BY DEF Status
<1>6. install' \in [Hosts -> [Dirs -> Installs]]
  BY <1>4, <1>5 DEF HostsTyped, Status
<1>7. \A h \in Hosts, q \in Dirs :
        /\ Alike(install'[h][q], install[h][q])
        /\ install'[h][q].settled <=> install[h][q].settled \/ (h \in H /\ q = k /\ Settles(h, k))
  <2> TAKE h \in Hosts, q \in Dirs
  <2>1. CASE h \in H /\ Settles(h, k) /\ q = k
    <3>1. install'[h][q] = [install[h][q] EXCEPT !.settled = TRUE]
      BY <1>5, <2>1 DEF HostsTyped
    <3> QED
      BY <3>1, <2>1, <1>2, SettledMoves DEF Alike
  <2>2. CASE ~(h \in H /\ Settles(h, k) /\ q = k)
    <3>1. install'[h][q] = install[h][q]
      BY <1>5, <2>2 DEF HostsTyped
    <3> QED
      BY <3>1, <2>2 DEF Alike
  <2> QED
    BY <2>1, <2>2
<1>8. HostsTyped'
  BY <1>3, <1>6, <1>7 DEF HostsTyped, Status, Alike
<1> QED
  BY <1>1, <1>7, <1>8 DEF Status, Settling

\* Installer::begin writes a fresh directory.
LEMMA BeginStep ==
  ASSUME HostsTyped, NEW h \in Hosts, NEW k \in Dirs, NEW b \in Bundles \cup {NoBundle},
         BeginInstall(h, k, b), install[h][k].state = "none"
  PROVE  HostsTyped' /\ Beginning(h, k, b)
<1> DEFINE i == [NoInstall EXCEPT !.state = "fetching", !.sha = b]
<1>1. i \in Installs /\ i.state = "fetching" /\ ~i.settled /\ i.sha = b
  BY NewInstall
<1>2. install' = [install EXCEPT ![h][k] = i] /\ UNCHANGED <<running, installed, store>>
  BY DEF BeginInstall
<1> HIDE DEF i
<1>3. InDirs(install') /\ install'[h][k] = i
      /\ \A g \in Hosts, q \in Dirs : <<g, q>> # <<h, k>> => install'[g][q] = install[g][q]
  BY <1>1, <1>2, DirWritten DEF HostsTyped, InDirs
<1>4. HostsTyped'
  BY <1>1, <1>2, <1>3 DEF HostsTyped, InDirs
<1> QED
  BY <1>1, <1>2, <1>3, <1>4 DEF Beginning

\* What launch plans to record are bundles.
LEMMA AfterType ==
  ASSUME HostsTyped, NEW h \in Hosts, NEW k \in Dirs, Needs(h, k) # NoBundle
  PROVE  /\ After(h, k) \in Builds /\ After(h, k).current = Needs(h, k) /\ Needs(h, k) \in Bundles
         /\ k[2] = "update" => After(h, k).current = install[h][k].sha
         /\ k[2] # "update" => After(h, k).previous = install[h][k].sha
<1>1. installed[h] \in Builds /\ install[h][k] \in Installs
  BY DEF HostsTyped
<1>2. Needs(h, k) \in Bundles \cup {NoBundle}
  BY <1>1, InstallFields DEF Needs, RollbackTarget, Builds
<1>3. installed[h].current \in Bundles \cup {NoBundle} /\ installed[h].previous \in Bundles \cup {NoBundle}
  BY <1>1 DEF Builds
<1>4. After(h, k) \in Builds /\ After(h, k).current = Needs(h, k)
  BY <1>2, <1>3 DEF After, Builds
<1>5. ASSUME k[2] # "update" PROVE After(h, k).previous = install[h][k].sha
  BY <1>5 DEF After, Needs, RollbackTarget
<1>6. ASSUME k[2] = "update" PROVE After(h, k).current = install[h][k].sha
  BY <1>6 DEF After, Needs
<1> QED
  BY <1>2, <1>4, <1>5, <1>6

LEMMA LaunchStep ==
  ASSUME HostsTyped, NEW h \in Hosts, NEW k \in Dirs, Launch(h, k)
  PROVE  /\ HostsTyped' /\ running' = running /\ installed' = installed
         /\ install[h][k].state = "fetching"
         /\ install'[h][k].state = "installing" /\ (install'[h][k].settled <=> install[h][k].settled)
         /\ install'[h][k].sha = install[h][k].sha
         /\ k[2] = "update" => install'[h][k].after.current = install[h][k].sha
         /\ k[2] # "update" => install'[h][k].after.previous = install[h][k].sha
         /\ \A g \in Hosts, q \in Dirs : <<g, q>> # <<h, k>> => install'[g][q] = install[g][q]
<1>0. PICK i : i = [install[h][k] EXCEPT !.state = "installing", !.after = After(h, k)]
  OBVIOUS
<1>1. install[h][k] \in Installs /\ Needs(h, k) # NoBundle /\ install[h][k].state = "fetching"
  BY DEF HostsTyped, Launch
<1>2. /\ After(h, k) \in Builds /\ After(h, k).current = Needs(h, k) /\ Needs(h, k) \in Bundles
      /\ k[2] = "update" => After(h, k).current = install[h][k].sha
      /\ k[2] # "update" => After(h, k).previous = install[h][k].sha
  BY <1>1, AfterType
<1>3. i \in Installs /\ i.state = "installing" /\ i.settled = install[h][k].settled /\ i.sha = install[h][k].sha
      /\ i.after = After(h, k)
  <2>1. PICK a \in Builds : a = After(h, k)
    BY <1>2
  <2>2. PICK o \in Installs : o = install[h][k]
    BY <1>1
  <2>3. i = [o EXCEPT !.state = "installing", !.after = a]
    BY <1>0, <2>1, <2>2
  <2>4. i \in Installs /\ i.state = "installing" /\ i.settled = o.settled /\ i.sha = o.sha /\ i.after = a
    BY <2>3 DEF Installs
  <2> QED
    BY <2>1, <2>2, <2>4
<1>4. install' = [install EXCEPT ![h][k] = i]
  BY <1>0 DEF Launch
<1>5. running' = running /\ installed' = installed /\ store' = [store EXCEPT ![h] = @ \cup {Needs(h, k)}]
  BY DEF Launch
<1>6. InDirs(install') /\ install'[h][k] = i
      /\ \A g \in Hosts, q \in Dirs : <<g, q>> # <<h, k>> => install'[g][q] = install[g][q]
  BY <1>3, <1>4, DirWritten DEF HostsTyped, InDirs
<1>7. store' \in [Hosts -> SUBSET Bundles]
  BY <1>2, <1>5 DEF HostsTyped
<1>8. HostsTyped'
  BY <1>1, <1>2, <1>3, <1>5, <1>6, <1>7 DEF HostsTyped, InDirs
<1> QED
  BY <1>1, <1>2, <1>3, <1>5, <1>6, <1>8

\* One install moves on, or fails.
LEMMA MoveStep ==
  ASSUME HostsTyped, NEW h \in Hosts, NEW k \in Dirs, Exits(h, k) \/ InstallFails(h, k)
  PROVE  /\ HostsTyped' /\ UNCHANGED <<running, installed>>
         /\ \/ install[h][k].state = "upgraded" /\ install'[h][k].state = "exited"
            \/ install[h][k].state \in {"fetching", "installing"} /\ install'[h][k].state = "failed"
         /\ install'[h][k].settled <=> install[h][k].settled
         /\ install'[h][k].sha = install[h][k].sha /\ install'[h][k].after = install[h][k].after
         /\ \A g \in Hosts, q \in Dirs : <<g, q>> # <<h, k>> => install'[g][q] = install[g][q]
<1>1. install[h][k] \in Installs /\ UNCHANGED <<running, installed, store>>
  BY DEF HostsTyped, Exits, InstallFails
<1>2. PICK s \in {"exited", "failed"} :
        /\ install' = [install EXCEPT ![h][k] = [install[h][k] EXCEPT !.state = s]]
        /\ s = "exited" => install[h][k].state = "upgraded"
        /\ s = "failed" => install[h][k].state \in {"fetching", "installing"}
  BY DEF Exits, InstallFails
<1>3. PICK i : i = [install[h][k] EXCEPT !.state = s]
  OBVIOUS
<1>4. i \in Installs /\ i.state = s /\ i.settled = install[h][k].settled /\ i.sha = install[h][k].sha
      /\ i.after = install[h][k].after
  BY <1>1, <1>3, StateMoves
<1>5. install' = [install EXCEPT ![h][k] = i]
  BY <1>2, <1>3
<1>6. InDirs(install') /\ install'[h][k] = i
      /\ \A g \in Hosts, q \in Dirs : <<g, q>> # <<h, k>> => install'[g][q] = install[g][q]
  BY <1>4, <1>5, DirWritten DEF HostsTyped, InDirs
<1>7. HostsTyped'
  BY <1>1, <1>2, <1>4, <1>6 DEF HostsTyped, InDirs
<1> QED
  BY <1>1, <1>2, <1>4, <1>6, <1>7

\* A restart of a host orphans what it fetched.
LEMMA RestartStep ==
  ASSUME HostsTyped, NEW h \in Hosts, Crash(h)
  PROVE  /\ HostsTyped' /\ UNCHANGED <<running, installed>>
         /\ \A g \in Hosts, q \in Dirs :
              /\ install'[g][q].settled <=> install[g][q].settled
              /\ install'[g][q].sha = install[g][q].sha /\ install'[g][q].after = install[g][q].after
              /\ install'[g][q].state = IF g = h /\ install[g][q].state = "fetching" THEN "orphaned"
                                                                               ELSE install[g][q].state
<1>1. \A q \in Dirs : install[h][q] \in Installs /\ Orphaned(install[h][q]) \in Installs
  BY OrphanMoves DEF HostsTyped
<1>2. install' = [install EXCEPT ![h] = [q \in Dirs |-> Orphaned(install[h][q])]]
  BY DEF Crash
<1>3. install' \in [Hosts -> [Dirs -> Installs]]
  BY <1>1, <1>2 DEF HostsTyped
<1>4. \A g \in Hosts, q \in Dirs : install'[g][q] = IF g = h THEN Orphaned(install[g][q]) ELSE install[g][q]
  BY <1>2 DEF HostsTyped
<1>5. \A q \in Dirs :
         LET j == Orphaned(install[h][q]) IN
            /\ j.settled = install[h][q].settled /\ j.sha = install[h][q].sha /\ j.after = install[h][q].after
            /\ j.state = IF install[h][q].state = "fetching" THEN "orphaned" ELSE install[h][q].state
  BY <1>1, OrphanMoves
<1>6. \A g \in Hosts, q \in Dirs :
              /\ install'[g][q].settled <=> install[g][q].settled
              /\ install'[g][q].sha = install[g][q].sha /\ install'[g][q].after = install[g][q].after
              /\ install'[g][q].state = IF g = h /\ install[g][q].state = "fetching" THEN "orphaned"
                                                                               ELSE install[g][q].state
  BY <1>4, <1>5
<1>7. HostsTyped'
  BY <1>3, <1>6 DEF HostsTyped, Crash
<1> QED
  BY <1>6, <1>7 DEF Crash

\* The package manager replaces bmacd.
LEMMA UpgradedStep ==
  ASSUME HostsTyped, NEW h \in Hosts, NEW k \in Dirs, Upgraded(h, k)
  PROVE  /\ HostsTyped' /\ installed' = installed /\ install[h][k].state = "installing"
         /\ running'[h] = install[h][k].after.current
         /\ \A g \in Hosts \ {h} : running'[g] = running[g]
         /\ \A g \in Hosts, q \in Dirs :
              /\ install'[g][q].settled <=> install[g][q].settled
              /\ install'[g][q].sha = install[g][q].sha /\ install'[g][q].after = install[g][q].after
              /\ install'[g][q].state =
                   IF g = h /\ q = k THEN "upgraded"
                   ELSE IF g = h /\ install[g][q].state = "fetching" THEN "orphaned" ELSE install[g][q].state
<1> DEFINE J(q) == IF q = k THEN [install[h][q] EXCEPT !.state = "upgraded"] ELSE Orphaned(install[h][q])
<1>0. \A q \in Dirs : install[h][q] \in Installs
  BY DEF HostsTyped
<1>1. \A q \in Dirs : install[h][q] \in Installs /\ J(q) \in Installs
  BY <1>0, StateMoves, OrphanMoves
<1>2. install' = [install EXCEPT ![h] = [q \in Dirs |-> J(q)]]
  BY DEF Upgraded
<1>5. \A q \in Dirs :
            /\ J(q).settled = install[h][q].settled /\ J(q).sha = install[h][q].sha /\ J(q).after = install[h][q].after
            /\ J(q).state = IF q = k THEN "upgraded"
                  ELSE IF install[h][q].state = "fetching" THEN "orphaned" ELSE install[h][q].state
  BY <1>0, StateMoves, OrphanMoves
<1> HIDE DEF J
<1>3. install' \in [Hosts -> [Dirs -> Installs]]
  BY <1>1, <1>2 DEF HostsTyped
<1>4. \A g \in Hosts, q \in Dirs : install'[g][q] = IF g = h THEN J(q) ELSE install[g][q]
  BY <1>2 DEF HostsTyped
<1>6. \A g \in Hosts, q \in Dirs :
              /\ install'[g][q].settled <=> install[g][q].settled
              /\ install'[g][q].sha = install[g][q].sha /\ install'[g][q].after = install[g][q].after
              /\ install'[g][q].state =
                   IF g = h /\ q = k THEN "upgraded"
                   ELSE IF g = h /\ install[g][q].state = "fetching" THEN "orphaned" ELSE install[g][q].state
  BY <1>4, <1>5
<1>7. install[h][k].state = "installing" /\ install[h][k].after.current \in Bundles
  BY <1>1, InstallFields DEF Upgraded, HostsTyped
<1>8. running' = [running EXCEPT ![h] = install[h][k].after.current]
  BY DEF Upgraded
<1>9. running' \in [Hosts -> Bundles] /\ running'[h] = install[h][k].after.current
      /\ \A g \in Hosts \ {h} : running'[g] = running[g]
  BY <1>7, <1>8 DEF HostsTyped
<1>10. HostsTyped'
  BY <1>3, <1>6, <1>7, <1>9 DEF HostsTyped, Upgraded
<1> QED
  BY <1>6, <1>7, <1>9, <1>10 DEF Upgraded

-----------------------------------------------------------------------------
(* The script's place and its checkpoints.                                 *)

LEMMA UpdFields ==
  ASSUME UpdTypeOK
  PROVE  /\ pc.host \in Hosts /\ pc.version \in Bundles \cup {NoBundle}
         /\ done.sha \in Bundles \cup {NoBundle}
         /\ done.plan \subseteq Hosts /\ done.updated \subseteq Hosts /\ done.back \subseteq Hosts
         /\ done.rolled \subseteq Hosts /\ done.skipped \subseteq Hosts
         /\ job.id \in 0..MaxJobs /\ job.op \in Modes
         /\ Mode \in Modes
BY DEF UpdTypeOK, Scripts, Checks, UpdJobs, Mode, Modes

LEMMA KeyType ==
  ASSUME UpdTypeOK, job.state # "none", NEW m \in Modes
  PROVE  Key(m) \in Dirs /\ Key(m)[1] = job.id /\ Key(m)[2] = m
<1>1. job.id \in 1..MaxJobs
  BY UpdAssumption DEF UpdTypeOK, UpdJobs
<1> QED
  BY <1>1 DEF Key, Dirs, JobIds

\* The script moves on.
LEMMA MovesPlace ==
  ASSUME UpdTypeOK, NEW p \in {"begin", "plan", "loop", "drain", "install", "await", "health", "offer", "roll"}, Moves(p)
  PROVE  pc' \in Scripts /\ pc'.at = p /\ pc'.host = pc.host /\ pc'.version = pc.version
BY DEF UpdTypeOK, Moves, Scripts

\* A job that ends.
LEMMA EndsJob ==
  ASSUME UpdTypeOK, NEW s \in {"failed", "succeeded"}, JobEnds(s)
  PROVE  /\ pc' \in Scripts /\ pc'.at = "off" /\ job' \in UpdJobs /\ job'.state = s
         /\ job'.id = job.id /\ job'.op = job.op /\ ~Alive'
BY UpdAssumption DEF UpdTypeOK, JobEnds, Scripts, UpdJobs, Off, Alive

\* The first failure stops an update, and ends a rollback.
LEMMA HostFailedStep ==
  ASSUME UpdTypeOK, job.state = "running", HostFailed
  PROVE  /\ stray' \in BOOLEAN /\ done' \in Checks /\ job' \in UpdJobs /\ pc' \in Scripts
         /\ pc'.at # "off" <=> job'.state = "running"
         /\ job'.id = job.id /\ job'.op = job.op /\ job'.state # "none"
         /\ done'.sha = done.sha /\ done'.back = done.back /\ done'.plan = done.plan
         /\ done'.rolled = done.rolled /\ done'.skipped = done.skipped
         /\ Alive' => Mode = "update" /\ Mode' = "rollback" /\ pc'.at = "offer" /\ pc'.host = pc.host
         /\ stray' <=> stray \/ Underway(install[pc.host][Key(Mode)])
<1>1. stray' \in BOOLEAN /\ (stray' <=> stray \/ Underway(install[pc.host][Key(Mode)]))
  BY DEF HostFailed, UpdTypeOK
<1>2. CASE Mode = "update" /\ Stopped
  <2>1. done' \in Checks /\ done'.stopped /\ done'.sha = done.sha /\ done'.back = done.back /\ done'.plan = done.plan
        /\ done'.rolled = done.rolled /\ done'.skipped = done.skipped
    BY <1>2 DEF Stopped, UpdTypeOK, Checks
  <2>2. pc' \in Scripts /\ pc'.at = "offer" /\ pc'.host = pc.host
    BY <1>2, MovesPlace DEF Stopped
  <2>3. job' = job /\ job \in UpdJobs
    BY <1>2 DEF Stopped, UpdTypeOK
  <2> QED
    BY <1>1, <1>2, <2>1, <2>2, <2>3 DEF Mode
<1>3. CASE Mode = "rollback" /\ Fail /\ UNCHANGED done
  <2>1. pc' \in Scripts /\ pc'.at = "off" /\ job' \in UpdJobs /\ job'.state = "failed"
         /\ job'.id = job.id /\ job'.op = job.op /\ ~Alive'
    BY <1>3, EndsJob DEF Fail
  <2> QED
    BY <1>1, <1>3, <2>1 DEF UpdTypeOK
<1> QED
  BY <1>2, <1>3 DEF HostFailed

LEMMA UpdTypeStep ==
  ASSUME UpdTypeOK, PlaceFits, UpdNext
  PROVE  UpdTypeOK'
<1> USE UpdAssumption
<1> DEFINE Others == /\ answers \subseteq Hosts /\ schema \in Nat /\ stray \in BOOLEAN /\ hitches \in 0..MaxHitches
                   /\ done \in Checks
           Place == job \in UpdJobs /\ pc \in Scripts /\ (pc.at # "off" <=> job.state = "running")
                    /\ (job.state # "none" => job.id # 0)
<1>0. Others /\ Place /\ HostsTyped
  BY DEF UpdTypeOK
<1>a. ASSUME Others', Place', HostsTyped' PROVE UpdTypeOK'
  BY <1>a DEF UpdTypeOK
<1>b. ASSUME UNCHANGED hostVars PROVE HostsTyped'
  BY <1>0, <1>b DEF HostsTyped, hostVars
<1>c. ASSUME NEW p \in {"begin", "plan", "loop", "drain", "install", "await", "health", "offer", "roll"}, Moves(p),
             job.state = "running", job' = job
      PROVE  Place'
  BY <1>0, <1>c, MovesPlace
<1>d. ASSUME NEW s \in {"failed", "succeeded"}, JobEnds(s), job.state # "none" PROVE Place'
  BY <1>0, <1>d, EndsJob
<1>e. ASSUME Hitch PROVE hitches' \in 0..MaxHitches
  BY <1>0, <1>e DEF Hitch
<1>1. CASE \E op \in Modes : StartJob(op)
  <2>1. Others'
    BY <1>0, <1>1 DEF StartJob, Checks, NoChecks
  <2>2. Place'
    BY <1>0, <1>1 DEF StartJob, UpdJobs, Scripts, Off, Modes
  <2> QED
    BY <1>1, <1>a, <1>b, <2>1, <2>2 DEF StartJob, hostVars
<1>2. CASE Resume
  <2>1. Others'
    BY <1>0, <1>2 DEF Resume
  <2>2. Place'
    BY <1>0, <1>2, <1>d DEF Resume, UpdJobs, Scripts, Off, Fail
  <2> QED
    BY <1>2, <1>a, <1>b, <2>1, <2>2 DEF Resume, hostVars
<1>3. CASE OpenBundle \/ OfferEnds \/ BeginRollback \/ CheckFails
  <2>1. Others'
    BY <1>0, <1>3 DEF OpenBundle, OfferEnds, BeginRollback, CheckFails
  <2>2. Place'
    BY <1>0, <1>3, <1>c, <1>d DEF OpenBundle, OfferEnds, BeginRollback, CheckFails, Fail, At
  <2> QED
    BY <1>3, <1>a, <1>b, <2>1, <2>2 DEF OpenBundle, OfferEnds, BeginRollback, CheckFails, hostVars
<1>4. CASE \E b \in Bundles : ChooseBundle(b) \/ PlanRollback(b)
  <2>1. PICK b \in Bundles : ChooseBundle(b) \/ PlanRollback(b)
    BY <1>4
  <2>2. ASSUME ChooseBundle(b) PROVE done' \in Checks
    BY <1>0, <2>2 DEF ChooseBundle, Checks
  <2>3. ASSUME PlanRollback(b) PROVE done' \in Checks
    <3>1. PICK hosts \in SUBSET Hosts : done' = [done EXCEPT !.sha = b, !.back = hosts]
      BY <2>3 DEF PlanRollback
    <3> QED
      BY <1>0, <3>1 DEF Checks
  <2>4. done' \in Checks
    BY <2>1, <2>2, <2>3
  <2> QED
    BY <1>0, <1>4, <1>a, <1>b, <2>4 DEF ChooseBundle, PlanRollback, hostVars
<1>5. CASE \E b \in Bundles : Upload(b)
  <2>1. HostsTyped'
    BY <1>0, <1>5 DEF Upload, HostsTyped
  <2> QED
    BY <1>0, <1>5, <1>a, <2>1 DEF Upload
<1>f. ASSUME Mode = "update", pc.at \in {"plan", "loop"}, Raised PROVE schema' \in Nat
  <2>1. done.sha \in Bundles
    BY <1>f, UpdFields DEF PlaceFits
  <2> QED
    BY <1>0, <1>f, <2>1 DEF Raised
<1>6. CASE \E m \in BOOLEAN : Plan(m)
  <2>0. PICK m \in BOOLEAN : Plan(m)
    BY <1>6
  <2>1. At("plan") /\ UNCHANGED hostVars
    BY <2>0 DEF Plan, hostVars
  <2>2. CASE Raised /\ JobEnds("succeeded") /\ UNCHANGED done
    <3>1. Others'
      BY <1>0, <1>f, <2>0, <2>1, <2>2 DEF Plan, At, PlaceFits
    <3> QED
      BY <1>a, <1>b, <1>d, <2>1, <2>2, <3>1 DEF At
  <2>3. CASE /\ done' = [done EXCEPT !.plan = {h \in Hosts : ~Runs(h, done.sha)}, !.migrate = m]
             /\ Moves("loop") /\ UNCHANGED <<schema, job>>
    <3>1. done' \in Checks
      BY <1>0, <2>3 DEF Checks
    <3>2. Others'
      BY <1>0, <2>0, <2>3, <3>1 DEF Plan
    <3> QED
      BY <1>a, <1>b, <1>c, <2>1, <2>3, <3>2 DEF At
  <2> QED
    BY <2>0, <2>2, <2>3 DEF Plan
<1>7. CASE NextUpdate
  <2>1. At("loop") /\ UNCHANGED hostVars
    BY <1>7 DEF NextUpdate, hostVars
  <2>2. CASE Raised /\ JobEnds("succeeded")
    <3>1. Others'
      BY <1>0, <1>7, <1>f, <2>1, <2>2 DEF NextUpdate, At, PlaceFits
    <3> QED
      BY <1>a, <1>b, <1>d, <2>1, <2>2, <3>1 DEF At
  <2>3. CASE /\ \E h \in Hosts :
                  pc' = [at |-> IF done.migrate THEN "drain" ELSE "install", host |-> h, version |-> done.sha]
             /\ UNCHANGED <<schema, job>>
    <3>1. Others'
      BY <1>0, <1>7, <2>3 DEF NextUpdate
    <3>2. Place'
      BY <1>0, <2>1, <2>3, UpdFields DEF At, Scripts
    <3> QED
      BY <1>a, <1>b, <2>1, <3>1, <3>2
  <2> QED
    BY <1>7, <2>2, <2>3 DEF NextUpdate
<1>g. ASSUME job.state = "running", HostFailed PROVE Place' /\ stray' \in BOOLEAN /\ done' \in Checks
  <2>1. job'.id # 0
    BY <1>0, <1>g, HostFailedStep
  <2> QED
    BY <1>g, <2>1, HostFailedStep
<1>8. CASE Drain
  <2>1. Others' /\ Place'
    BY <1>0, <1>8, <1>c, <1>e, <1>g DEF Drain, At
  <2> QED
    BY <1>8, <1>a, <1>b, <2>1 DEF Drain, hostVars
<1>9. CASE GivesUp \/ Unhealthy
  <2>1. Others' /\ Place'
    BY <1>0, <1>9, <1>e, <1>g DEF GivesUp, Unhealthy, At
  <2> QED
    BY <1>9, <1>a, <1>b, <2>1 DEF GivesUp, Unhealthy, hostVars
<1>10. CASE Healthy
  <2>1. done' \in Checks /\ job' = job /\ job.state = "running"
    BY <1>0, <1>10, UpdFields DEF Healthy, HostDone, Checks, At
  <2>2. Place'
    BY <1>10, <1>c, <2>1 DEF Healthy, HostDone
  <2> QED
    BY <1>0, <1>10, <1>a, <1>b, <2>1, <2>2 DEF Healthy, hostVars
<1>h. ASSUME NEW H \in SUBSET Hosts, NEW m \in Modes, Status(H, Key(m)), job.state = "running" PROVE HostsTyped'
  BY <1>0, <1>h, KeyType, StatusStep
<1>11. CASE AskInstall
  <2>1. CASE /\ BeginInstall(pc.host, Key(Mode), done.sha)
             /\ Moves("await") /\ UNCHANGED <<job, done, stray>>
    <3>1. job.state = "running" /\ Key(Mode) \in Dirs
      BY <1>11, KeyType, UpdFields DEF AskInstall, At
    <3>2. HostsTyped'
      <4>1. CASE install[pc.host][Key(Mode)].state = "none"
        BY <1>0, <2>1, <3>1, <4>1, BeginStep, UpdFields
      <4>2. CASE install[pc.host][Key(Mode)].state # "none"
        BY <1>h, <2>1, <3>1, <4>2, UpdFields DEF BeginInstall
      <4> QED
        BY <4>1, <4>2
    <3> QED
      BY <1>0, <1>11, <1>a, <1>c, <2>1, <3>1, <3>2 DEF AskInstall
  <2>2. CASE HostFailed /\ UNCHANGED hostVars
    BY <1>0, <1>11, <1>a, <1>b, <1>g, <2>2 DEF AskInstall, At
  <2> QED
    BY <1>11, <2>1, <2>2 DEF AskInstall
<1>12. CASE Await
  <2>1. HostsTyped'
    BY <1>12, <1>h, UpdFields DEF Await, At
  <2>2. Others' /\ Place'
    BY <1>0, <1>12, <1>c, <1>g DEF Await, At
  <2> QED
    BY <1>a, <2>1, <2>2
<1>13. CASE Offer
  <2>1. HostsTyped'
    BY <1>13, <1>h DEF Offer, At, Modes
  <2>2. CASE Fail /\ UNCHANGED done
    BY <1>0, <1>13, <1>a, <1>d, <2>1, <2>2 DEF Offer, At, Fail
  <2>3. CASE \E answer \in {"roll", "leave"} :
                /\ done' = [done EXCEPT !.asked = answer, !.back = OnBundle(installed')]
                /\ UNCHANGED <<job, pc>>
    <3>1. done' \in Checks
      BY <1>0, <2>3, ZenonT(30) DEF OnBundle, Checks
    <3> QED
      BY <1>0, <1>13, <1>a, <2>1, <2>3, <3>1 DEF Offer
  <2> QED
    BY <1>13, <2>2, <2>3 DEF Offer
<1>14. CASE NextRollback
  <2>1. CASE UNCHANGED <<done, hostVars>> /\ \E s \in {"failed", "succeeded"} : JobEnds(s)
    BY <1>0, <1>14, <1>a, <1>b, <1>d, <2>1 DEF NextRollback, At
  <2>2. CASE \E h \in Hosts : Status({h}, Key("rollback")) /\ RollHost(h) /\ UNCHANGED job
    <3>0. PICK h \in Hosts : Status({h}, Key("rollback")) /\ RollHost(h) /\ UNCHANGED job
      BY <2>2
    <3>1. HostsTyped' /\ job.state = "running" /\ pc.at = "roll"
      BY <1>14, <1>h, <3>0 DEF NextRollback, At, Modes
    <3>2. InstalledAfter(h, Key("rollback")) \in Builds /\ running[h] \in Bundles
      <4>1. Key("rollback") \in Dirs
        BY <3>1, KeyType DEF Modes
      <4>2. install[h][Key("rollback")].after \in Builds
        BY <1>0, <4>1, InstallFields DEF HostsTyped
      <4> QED
        BY <1>0, <4>2 DEF InstalledAfter, HostsTyped
    <3>3. InstalledAfter(h, Key("rollback")).previous \in Bundles \cup {NoBundle}
      BY <3>2 DEF Builds
    <3>4. done' \in Checks
      BY <1>0, <3>0 DEF RollHost, Checks
    <3>5. pc' \in Scripts /\ pc'.at # "off"
      BY <1>0, <3>0, <3>1, <3>2, <3>3 DEF RollHost, Scripts
    <3> QED
      BY <1>0, <1>14, <1>a, <3>0, <3>1, <3>4, <3>5 DEF NextRollback
  <2> QED
    BY <1>14, <2>1, <2>2 DEF NextRollback, Fail
<1>i. ASSUME NEW h \in Hosts, Restarts(h) PROVE Place'
  BY <1>0, <1>i DEF Restarts, UpdJobs, Scripts, Off
<1>15. CASE \E h \in Hosts : Lost(h) \/ Back(h)
  BY <1>0, <1>15, <1>a, <1>b, <1>e DEF Lost, Back, hostVars
<1>16. CASE \E h \in Hosts : Crash(h)
  <2>1. HostsTyped'
    BY <1>0, <1>16, RestartStep
  <2> QED
    BY <1>0, <1>16, <1>a, <1>e, <1>i, <2>1 DEF Crash
<1>17. CASE \E h \in Hosts, b \in Bundles : DeleteBundle(h, b)
  <2>1. HostsTyped'
    BY <1>0, <1>17 DEF DeleteBundle, HostsTyped
  <2> QED
    BY <1>0, <1>17, <1>a, <1>e, <2>1 DEF DeleteBundle
<1>18. CASE \E h \in Hosts, k \in Dirs : Launch(h, k)
  <2>1. HostsTyped'
    BY <1>0, <1>18, LaunchStep
  <2> QED
    BY <1>0, <1>18, <1>a, <2>1 DEF Launch
<1>19. CASE \E h \in Hosts, k \in Dirs : InstallFails(h, k) \/ Exits(h, k)
  <2>1. HostsTyped'
    BY <1>0, <1>19, MoveStep
  <2> QED
    BY <1>0, <1>19, <1>a, <1>e, <2>1 DEF InstallFails, Exits
<1>20. CASE \E h \in Hosts, k \in Dirs : Upgraded(h, k)
  <2>1. HostsTyped'
    BY <1>0, <1>20, UpgradedStep
  <2> QED
    BY <1>0, <1>20, <1>a, <1>i, <2>1 DEF Upgraded
<1> QED
  BY <1>1, <1>2, <1>3, <1>4, <1>5, <1>6, <1>7, <1>8, <1>9, <1>10, <1>11, <1>12, <1>13, <1>14, <1>15, <1>16, <1>17,
     <1>18, <1>19, <1>20 DEF UpdNext

\* The hosts that take no part in a step keep their installs.
LEMMA QuietSteps ==
  ASSUME \/ \E op \in Modes : StartJob(op)
         \/ Resume \/ OpenBundle \/ CheckFails \/ NextUpdate \/ Drain \/ GivesUp
         \/ Healthy \/ Unhealthy \/ OfferEnds \/ BeginRollback
         \/ \E m \in BOOLEAN : Plan(m)
         \/ \E b \in Bundles : ChooseBundle(b) \/ PlanRollback(b) \/ Upload(b)
         \/ \E h \in Hosts : Lost(h) \/ Back(h) \/ \E b \in Bundles : DeleteBundle(h, b)
  PROVE  UNCHANGED <<running, installed, install>>
BY DEF StartJob, Resume, OpenBundle, CheckFails, NextUpdate, Drain, GivesUp, Healthy, Unhealthy, OfferEnds,
       BeginRollback, Plan, ChooseBundle, PlanRollback, Upload, Lost, Back, DeleteBundle

LEMMA AskSteps ==
  ASSUME UpdTypeOK, AskInstall
  PROVE  /\ job.state = "running" /\ pc.at = "install"
         /\ \/ /\ UNCHANGED <<job, done, stray>> /\ Moves("await")
               /\ Beginning(pc.host, Key(Mode), done.sha) \/ Settling({pc.host}, Key(Mode))
            \/ HostFailed /\ UNCHANGED hostVars
<1>1. job.state = "running" /\ pc.at = "install"
  BY DEF AskInstall, At
<1>2. CASE /\ BeginInstall(pc.host, Key(Mode), done.sha)
           /\ Moves("await") /\ UNCHANGED <<job, done, stray>>
  <2>1. Key(Mode) \in Dirs /\ pc.host \in Hosts /\ done.sha \in Bundles \cup {NoBundle} /\ HostsTyped
    BY <1>1, KeyType, UpdFields DEF UpdTypeOK
  <2>2. CASE install[pc.host][Key(Mode)].state = "none"
    BY <1>1, <1>2, <2>1, <2>2, BeginStep
  <2>3. CASE install[pc.host][Key(Mode)].state # "none"
    <3>1. Status({pc.host}, Key(Mode))
      BY <1>2, <2>3 DEF BeginInstall
    <3> QED
      BY <1>1, <1>2, <2>1, <3>1, StatusStep
  <2> QED
    BY <2>2, <2>3
<1>3. CASE HostFailed /\ UNCHANGED hostVars
  BY <1>1, <1>3
<1> QED
  BY <1>2, <1>3 DEF AskInstall

LEMMA AwaitSteps ==
  ASSUME UpdTypeOK, Await
  PROVE  /\ job.state = "running" /\ pc.at = "await" /\ Settling({pc.host}, Key(Mode))
         /\ \/ install[pc.host][Key(Mode)].state = "exited" /\ Moves("health") /\ UNCHANGED <<job, done, stray>>
            \/ HostFailed
<1>1. job.state = "running" /\ pc.at = "await" /\ Status({pc.host}, Key(Mode))
  BY DEF Await, At
<1>2. Key(Mode) \in Dirs /\ pc.host \in Hosts /\ HostsTyped
  BY <1>1, KeyType, UpdFields DEF UpdTypeOK
<1>3. Settling({pc.host}, Key(Mode))
  BY <1>1, <1>2, StatusStep
<1> QED
  BY <1>1, <1>3 DEF Await

LEMMA OfferSteps ==
  ASSUME UpdTypeOK, Offer
  PROVE  /\ job.state = "running" /\ pc.at = "offer" /\ done.asked = "no" /\ Settling(Hosts, Key("rollback"))
         /\ stray' = stray
         /\ \/ Fail /\ UNCHANGED done
            \/ \E answer \in {"roll", "leave"} :
                 /\ done' = [done EXCEPT !.asked = answer, !.back = OnBundle(installed')]
                 /\ UNCHANGED <<job, pc>>
<1>1. job.state = "running" /\ pc.at = "offer" /\ Status(Hosts, Key("rollback")) /\ done.asked = "no" /\ stray' = stray
  BY DEF Offer, At
<1>2. Key("rollback") \in Dirs /\ HostsTyped
  BY <1>1, KeyType DEF UpdTypeOK, Modes
<1>3. Settling(Hosts, Key("rollback"))
  BY <1>1, <1>2, StatusStep
<1> QED
  BY <1>1, <1>3 DEF Offer

LEMMA RollSteps ==
  ASSUME UpdTypeOK, NextRollback
  PROVE  /\ job.state = "running" /\ pc.at = "roll" /\ stray' = stray
         /\ \/ UNCHANGED <<done, hostVars>> /\ \E s \in {"failed", "succeeded"} : JobEnds(s)
            \/ \E h \in done.back :
                  h \in Hosts /\ Settling({h}, Key("rollback")) /\ RollHost(h) /\ UNCHANGED job
<1>1. job.state = "running" /\ pc.at = "roll" /\ stray' = stray
  BY DEF NextRollback, At
<1>2. Key("rollback") \in Dirs /\ HostsTyped
  BY <1>1, KeyType DEF UpdTypeOK, Modes
<1>3. ASSUME NEW h \in Hosts, Status({h}, Key("rollback")) PROVE Settling({h}, Key("rollback"))
  BY <1>2, <1>3, StatusStep
<1> QED
  BY <1>1, <1>3 DEF NextRollback, First, Fail

\* What is settled stays so.
LEMMA SettledStays ==
  ASSUME UpdTypeOK, UpdNext, NEW h \in Hosts, NEW k \in Dirs, install[h][k].settled, install[h][k].state = "exited"
  PROVE  install'[h][k].settled /\ install'[h][k].state = "exited"
<1>0. HostsTyped
  BY DEF UpdTypeOK
<1>1. CASE UNCHANGED <<running, installed, install>>
  BY <1>1
<1>2. ASSUME NEW H, NEW q, Settling(H, q) PROVE install'[h][k].settled /\ install'[h][k].state = "exited"
  BY <1>2 DEF Settling, Alike
<1>3. CASE AskInstall
  BY <1>2, <1>3, AskSteps DEF Beginning, hostVars
<1>4. CASE Await
  BY <1>2, <1>4, AwaitSteps
<1>5. CASE Offer
  BY <1>2, <1>5, OfferSteps
<1>6. CASE NextRollback
  BY <1>2, <1>6, RollSteps DEF hostVars
<1>7. CASE \E g \in Hosts : Crash(g)
  BY <1>0, <1>7, RestartStep
<1>8. CASE \E g \in Hosts, q \in Dirs : Launch(g, q)
  BY <1>0, <1>8, LaunchStep
<1>9. CASE \E g \in Hosts, q \in Dirs : InstallFails(g, q) \/ Exits(g, q)
  BY <1>0, <1>9, MoveStep
<1>10. CASE \E g \in Hosts, q \in Dirs : Upgraded(g, q)
  BY <1>0, <1>10, UpgradedStep
<1> QED
  BY <1>1, <1>3, <1>4, <1>5, <1>6, <1>7, <1>8, <1>9, <1>10, QuietSteps DEF UpdNext

\* A step that leaves the job in its mode, and one that leaves its plans.
SameJob ==
    /\ job'.id = job.id /\ job'.op = job.op /\ done'.stopped = done.stopped
    /\ stray' = stray /\ (Alive' => Alive)
SamePlans ==
    done'.sha = done.sha /\ done'.plan = done.plan /\ done'.updated = done.updated /\ done'.back = done.back

LEMMA SameMode ==
  ASSUME job'.id = job.id, job'.op = job.op, done'.stopped = done.stopped
  PROVE  Mode' = Mode /\ \A m : Key(m)' = Key(m)
BY DEF Mode, Key

LEMMA PlaceStep ==
  ASSUME UpdTypeOK, PlaceFits, UpdNext
  PROVE  PlaceFits'
<1> DEFINE Fits == /\ done.plan # {} \/ done.stopped => done.sha # NoBundle
                   /\ Mode = "update" => done.asked = "no"
                   /\ job.op = "update" /\ done.asked = "no" => done.back = {}
<1>0. /\ Fits /\ done \in Checks /\ job \in UpdJobs /\ pc \in Scripts
      /\ pc.at # "off" <=> job.state = "running"
  BY DEF UpdTypeOK, PlaceFits
<1>a. ASSUME Fits', pc'.at \in {"off", "begin"} PROVE PlaceFits'
  BY <1>a DEF PlaceFits
<1>b. ASSUME UNCHANGED <<job, done, pc>> PROVE PlaceFits'
  <2>1. CASE pc.at # "health"
    BY <1>b, <2>1 DEF PlaceFits, Mode
  <2>2. CASE pc.at = "health"
    <3>1. Key(Mode) \in Dirs /\ pc.host \in Hosts
      BY <1>0, <2>2, KeyType, UpdFields
    <3>2. Asked(pc.host, Mode).state = "exited" /\ Asked(pc.host, Mode).settled
      BY <2>2 DEF PlaceFits
    <3>3. Asked(pc.host, Mode).state' = "exited" /\ Asked(pc.host, Mode).settled'
      BY <1>b, <3>1, <3>2, SettledStays, SameMode DEF Asked, Key, Mode
    <3> QED
      BY <1>b, <3>3 DEF PlaceFits, Mode
  <2> QED
    BY <2>1, <2>2
<1>c. ASSUME NEW s \in {"failed", "succeeded"}, JobEnds(s), done' = done PROVE PlaceFits'
  <2>1. pc'.at = "off" /\ job'.op = job.op
    BY <1>c, EndsJob
  <2>2. Fits'
    BY <1>0, <1>c, <2>1 DEF Mode
  <2> QED
    BY <1>a, <2>1, <2>2
<1>d. ASSUME job.state = "running", HostFailed, pc.at \in {"drain", "install", "await", "health"} PROVE PlaceFits'
  <2>1. CASE Mode = "update" /\ Stopped
    <3>1. done'.stopped /\ done'.plan = done.plan /\ done'.sha = done.sha /\ done'.asked = done.asked /\ done'.back = done.back
      BY <1>0, <2>1 DEF Stopped, Checks
    <3>2. pc'.at = "offer" /\ job' = job /\ job.op = "update"
      BY <2>1, MovesPlace, UpdFields DEF Stopped, Mode, Modes
    <3>3. done.sha # NoBundle
      BY <1>d, <2>1 DEF PlaceFits
    <3> QED
      BY <1>0, <3>1, <3>2, <3>3 DEF PlaceFits, Mode
  <2>2. CASE Mode = "rollback" /\ Fail /\ UNCHANGED done
    BY <1>c, <2>2 DEF Fail
  <2> QED
    BY <1>d, <2>1, <2>2 DEF HostFailed
<1>1. CASE \E op \in Modes : StartJob(op)
  BY <1>1, <1>a DEF StartJob, NoChecks, Mode, Off
<1>2. CASE Resume
  <2>1. CASE job' = [job EXCEPT !.state = "running"] /\ pc' = [Off EXCEPT !.at = "begin"]
    <3>1. job'.op = job.op /\ pc'.at = "begin" /\ done' = done
      BY <1>0, <1>2, <2>1 DEF Off, UpdJobs, Resume
    <3> QED
      BY <1>0, <1>a, <3>1 DEF Mode
  <2> QED
    BY <1>2, <1>c, <2>1 DEF Resume, Fail
<1>3. CASE OpenBundle
  <2>1. CASE Fail
    BY <1>3, <1>c, <2>1 DEF OpenBundle, Fail
  <2>2. CASE Moves(IF done.stopped THEN "offer" ELSE IF done.plan # {} THEN "loop" ELSE "plan") /\ UNCHANGED job
    <3>1. pc'.at = (IF done.stopped THEN "offer" ELSE IF done.plan # {} THEN "loop" ELSE "plan")
      BY <2>2, MovesPlace
    <3>2. job' = job /\ done' = done /\ job.op = "update" /\ done.sha # NoBundle
      BY <1>3, <2>2 DEF OpenBundle
    <3> QED
      BY <1>0, <3>1, <3>2 DEF PlaceFits, Mode
  <2> QED
    BY <1>3, <2>1, <2>2 DEF OpenBundle
<1>4. CASE OfferEnds \/ BeginRollback
  <2>1. CASE Fail
    BY <1>4, <1>c, <2>1 DEF OfferEnds, BeginRollback, Fail
  <2>2. CASE Moves("roll") /\ UNCHANGED job
    <3>1. pc'.at = "roll"
      BY <2>2, MovesPlace
    <3>2. job' = job /\ done' = done /\ Mode = "rollback"
      BY <1>4, <2>2 DEF OfferEnds, BeginRollback, PlaceFits, Mode, Fail, At, Moves
    <3> QED
      BY <1>0, <3>1, <3>2 DEF PlaceFits, Mode
  <2> QED
    BY <1>4, <2>1, <2>2 DEF OfferEnds, BeginRollback
<1>18. CASE CheckFails
  BY <1>18, <1>c DEF CheckFails, Fail
<1>5. CASE \E b \in Bundles : ChooseBundle(b)
  <2>1. PICK b \in Bundles : ChooseBundle(b)
    BY <1>5
  <2>2. done' = [done EXCEPT !.sha = b] /\ b # NoBundle /\ UNCHANGED <<job, pc>> /\ pc.at = "begin"
    BY <2>1, UpdAssumption DEF ChooseBundle, NoBundle, At
  <2>3. done'.plan = done.plan /\ done'.asked = done.asked /\ done'.back = done.back /\ done'.sha = b
        /\ done'.stopped = done.stopped
    BY <1>0, <2>2 DEF Checks
  <2> QED
    BY <1>0, <1>a, <2>2, <2>3 DEF Mode
<1>6. CASE \E b \in Bundles : PlanRollback(b)
  <2>1. PICK b \in Bundles : PlanRollback(b)
    BY <1>6
  <2>2. PICK hosts : done' = [done EXCEPT !.sha = b, !.back = hosts]
    BY <2>1 DEF PlanRollback
  <2>3. b # NoBundle /\ UNCHANGED <<job, pc>> /\ pc.at = "begin" /\ job.op = "rollback"
    BY <2>1, UpdAssumption DEF PlanRollback, NoBundle, At
  <2>4. done'.plan = done.plan /\ done'.asked = done.asked /\ done'.sha = b /\ done'.stopped = done.stopped
    BY <1>0, <2>2 DEF Checks
  <2> QED
    BY <1>0, <1>a, <2>3, <2>4 DEF Mode
<1>7. CASE \E m \in BOOLEAN : Plan(m)
  <2>0. PICK m \in BOOLEAN : Plan(m)
    BY <1>7
  <2>1. CASE JobEnds("succeeded") /\ UNCHANGED done
    BY <1>c, <2>1
  <2>2. CASE /\ done' = [done EXCEPT !.plan = {h \in Hosts : ~Runs(h, done.sha)}, !.migrate = m]
             /\ Moves("loop") /\ UNCHANGED <<schema, job>>
    <3>1. pc'.at = "loop" /\ pc.at = "plan" /\ job' = job
      BY <2>0, <2>2, MovesPlace DEF Plan, At
    <3>2. done'.sha = done.sha /\ done'.asked = done.asked /\ done'.back = done.back /\ done'.stopped = done.stopped
      BY <1>0, <2>2 DEF Checks
    <3> QED
      BY <1>0, <3>1, <3>2 DEF PlaceFits, Mode
  <2> QED
    BY <2>0, <2>1, <2>2 DEF Plan
<1>8. CASE NextUpdate
  <2>1. CASE JobEnds("succeeded")
    BY <1>8, <1>c, <2>1 DEF NextUpdate
  <2>2. ASSUME NEW h \in Hosts, First(h, done.plan \ done.updated),
               pc' = [at |-> IF done.migrate THEN "drain" ELSE "install", host |-> h, version |-> done.sha],
               UNCHANGED <<schema, job>>
        PROVE  PlaceFits'
    <3>1. done' = done /\ job' = job /\ pc.at = "loop" /\ Mode = "update"
      BY <1>8, <2>2 DEF NextUpdate, At, PlaceFits
    <3>2. pc'.at \in {"drain", "install"} /\ pc'.host = h /\ pc'.version = done.sha
      BY <2>2
    <3>3. First(pc.host, done.plan \ done.updated)'
      BY <2>2, <3>1, <3>2 DEF First
    <3> QED
      BY <1>0, <3>1, <3>2, <3>3 DEF PlaceFits, Mode
  <2> QED
    BY <1>8, <2>1, <2>2 DEF NextUpdate
<1>e. ASSUME UNCHANGED <<job, done>>, pc.at \in {"drain", "install", "await"}, pc'.at \in {"install", "await"},
             pc'.host = pc.host, pc'.version = pc.version
      PROVE  PlaceFits'
  <2>1. (First(pc.host, done.plan \ done.updated) => First(pc.host, done.plan \ done.updated)') /\ Mode' = Mode
    BY <1>e DEF First, Mode
  <2> QED
    BY <1>0, <1>e, <2>1 DEF PlaceFits
<1>9. CASE Drain
  <2>1. CASE Moves("install") /\ UNCHANGED <<job, done, stray, hitches>>
    BY <1>9, <1>e, <2>1, MovesPlace DEF Drain, At
  <2>2. CASE HostFailed
    BY <1>9, <1>d, <2>2 DEF Drain, At, PlaceFits
  <2> QED
    BY <1>9, <2>1, <2>2 DEF Drain
<1>10. CASE GivesUp \/ Unhealthy
  BY <1>10, <1>d DEF GivesUp, Unhealthy, At
<1>11. CASE Healthy
  <2>1. job' = job /\ pc.at = "health" /\ job.state = "running"
    BY <1>11 DEF Healthy, At
  <2>2. done'.sha = done.sha /\ done'.asked = done.asked /\ done'.back = done.back /\ done'.stopped = done.stopped
        /\ done'.plan = done.plan
    BY <1>0, <1>11 DEF Healthy, HostDone, Checks
  <2>3. pc'.at = (IF Mode = "update" THEN "loop" ELSE "roll")
    BY <1>11, MovesPlace DEF Healthy, HostDone
  <2> QED
    BY <1>0, <2>1, <2>2, <2>3, UpdFields DEF PlaceFits, Mode, Modes
<1>12. CASE AskInstall
  BY <1>12, <1>d, <1>e, AskSteps, MovesPlace
<1>13. CASE Await
  <2>1. CASE HostFailed
    BY <1>13, <1>d, <2>1, AwaitSteps
  <2>2. CASE /\ install[pc.host][Key(Mode)].state = "exited" /\ Moves("health") /\ UNCHANGED <<job, done, stray>>
             /\ Settling({pc.host}, Key(Mode)) /\ pc.at = "await" /\ job.state = "running"
    <3>1. pc'.at = "health" /\ pc'.host = pc.host /\ pc'.version = pc.version /\ Mode' = Mode /\ Key(Mode)' = Key(Mode)
      BY <2>2, MovesPlace, SameMode DEF Mode, Key
    <3>2. Key(Mode) \in Dirs /\ pc.host \in Hosts
      BY <2>2, KeyType, UpdFields
    <3>3. install'[pc.host][Key(Mode)].state = "exited" /\ install'[pc.host][Key(Mode)].settled
      BY <2>2, <3>2 DEF Settling, Alike, Settles
    <3>4. First(pc.host, done.plan \ done.updated) => First(pc.host, done.plan \ done.updated)'
      BY <2>2, <3>1 DEF First
    <3>5. Asked(pc.host, Mode).state' = "exited" /\ Asked(pc.host, Mode).settled'
      BY <3>1, <3>3 DEF Asked, Key
    <3> QED
      BY <1>0, <2>2, <3>1, <3>4, <3>5 DEF PlaceFits
  <2> QED
    BY <1>13, <2>1, <2>2, AwaitSteps
<1>14. CASE Offer
  <2>1. CASE Fail /\ UNCHANGED done
    BY <1>c, <2>1 DEF Fail
  <2>2. ASSUME NEW answer \in {"roll", "leave"}, UNCHANGED <<job, pc>>,
               done' = [done EXCEPT !.asked = answer, !.back = OnBundle(installed')]
        PROVE  PlaceFits'
    <3>1. done'.plan = done.plan /\ done'.sha = done.sha /\ done'.stopped = done.stopped /\ done'.asked = answer
      BY <1>0, <2>2 DEF Checks
    <3>2. pc'.at = "offer" /\ job' = job /\ done.stopped /\ job.op = "update"
      BY <1>14, <2>2, OfferSteps DEF PlaceFits
    <3> QED
      BY <1>0, <2>2, <3>1, <3>2 DEF PlaceFits, Mode
  <2> QED
    BY <1>14, <2>1, <2>2, OfferSteps
<1>15. CASE NextRollback
  <2>1. CASE UNCHANGED <<done, hostVars>> /\ \E s \in {"failed", "succeeded"} : JobEnds(s)
    BY <1>c, <2>1
  <2>2. ASSUME NEW h \in done.back, h \in Hosts, Settling({h}, Key("rollback")), RollHost(h), UNCHANGED job
        PROVE  PlaceFits'
    <3>1. job.state = "running" /\ pc.at = "roll" /\ Mode = "rollback" /\ Key("rollback") \in Dirs
      BY <1>15, RollSteps, KeyType DEF PlaceFits, Modes
    <3>2. /\ done'.plan = done.plan /\ done'.sha = done.sha /\ done'.stopped = done.stopped
          /\ done'.asked = done.asked /\ done'.back = done.back
      BY <1>0, <2>2 DEF RollHost, Checks
    <3>3. Mode' = Mode /\ Key("rollback")' = Key("rollback") /\ Fits'
      BY <1>0, <2>2, <3>2, SameMode DEF Mode, Key
    <3>4. CASE pc' = pc
      BY <3>1, <3>3, <3>4 DEF PlaceFits
    <3>5. CASE \E v : pc' = [at |-> "install", host |-> h, version |-> v]
      BY <2>2, <3>1, <3>2, <3>3, <3>5 DEF PlaceFits
    <3>6. CASE install[h][Key("rollback")].state = "exited" /\ \E v : pc' = [at |-> "health", host |-> h, version |-> v]
      <4>1. install'[h][Key("rollback")].state = "exited" /\ install'[h][Key("rollback")].settled
        BY <2>2, <3>1, <3>6 DEF Settling, Alike, Settles
      <4>2. pc'.at = "health" /\ pc'.host = h
        BY <3>6
      <4>3. Asked(pc.host, Mode).state' = "exited" /\ Asked(pc.host, Mode).settled'
        BY <3>1, <3>3, <4>1, <4>2 DEF Asked
      <4> QED
        BY <2>2, <3>1, <3>2, <3>3, <4>2, <4>3 DEF PlaceFits
    <3> QED
      BY <2>2, <3>4, <3>5, <3>6 DEF RollHost
  <2> QED
    BY <1>15, <2>1, <2>2, RollSteps
<1>f. ASSUME NEW h \in Hosts, Restarts(h), done' = done PROVE PlaceFits'
  <2>1. CASE UNCHANGED <<job, pc>>
    BY <1>b, <1>f, <2>1
  <2>2. CASE job' = [job EXCEPT !.state = "interrupted"] /\ pc' = Off
    <3>1. pc'.at = "off" /\ job'.op = job.op
      BY <1>0, <2>2 DEF Off, UpdJobs
    <3> QED
      BY <1>0, <1>a, <1>f, <3>1 DEF Mode
  <2> QED
    BY <1>f, <2>1, <2>2 DEF Restarts
<1>16. CASE \E h \in Hosts : Crash(h) \/ \E k \in Dirs : Upgraded(h, k)
  BY <1>16, <1>f DEF Crash, Upgraded
<1>17. CASE \/ \E b \in Bundles : Upload(b)
            \/ \E h \in Hosts : Lost(h) \/ Back(h) \/ \E b \in Bundles : DeleteBundle(h, b)
            \/ \E h \in Hosts, k \in Dirs : Launch(h, k) \/ InstallFails(h, k) \/ Exits(h, k)
  BY <1>17, <1>b DEF Upload, Lost, Back, DeleteBundle, Launch, InstallFails, Exits
<1> QED
  BY <1>1, <1>2, <1>3, <1>4, <1>5, <1>6, <1>7, <1>8, <1>9, <1>10, <1>11, <1>12, <1>13, <1>14, <1>15, <1>16, <1>17,
     <1>18 DEF UpdNext

\* The steps that plan nothing and leave the mode.
PlainStep ==
    \/ Resume \/ OpenBundle \/ CheckFails \/ NextUpdate \/ OfferEnds \/ BeginRollback \/ NextRollback
    \/ \E b \in Bundles : Upload(b)
    \/ \E h \in Hosts : Lost(h) \/ Back(h) \/ Crash(h) \/ \E b \in Bundles : DeleteBundle(h, b)
    \/ \E h \in Hosts, k \in Dirs : Launch(h, k) \/ InstallFails(h, k) \/ Upgraded(h, k) \/ Exits(h, k)

LEMMA PlainSteps ==
  ASSUME UpdTypeOK, PlainStep
  PROVE  SameJob /\ SamePlans
<1>0. job \in UpdJobs /\ done \in Checks
  BY DEF UpdTypeOK
<1>a. ASSUME NEW s \in {"failed", "succeeded"}, JobEnds(s), UNCHANGED <<done, stray>> PROVE SameJob /\ SamePlans
  BY <1>a, EndsJob DEF SameJob, SamePlans
<1>b. ASSUME UNCHANGED <<job, done, stray>> PROVE SameJob /\ SamePlans
  BY <1>b DEF SameJob, SamePlans, Alive
<1>c. ASSUME NEW s \in {"running", "interrupted"}, job' = [job EXCEPT !.state = s], UNCHANGED <<done, stray>>, Alive
      PROVE  SameJob /\ SamePlans
  BY <1>0, <1>c DEF SameJob, SamePlans, UpdJobs
<1>1. CASE Resume
  BY <1>1, <1>a, <1>c DEF Resume, Fail, Alive
<1>2. CASE OpenBundle \/ CheckFails \/ OfferEnds \/ BeginRollback
  BY <1>2, <1>a, <1>b DEF OpenBundle, CheckFails, OfferEnds, BeginRollback, Fail
<1>3. CASE NextUpdate
  BY <1>3, <1>a, <1>b DEF NextUpdate
<1>4. CASE NextRollback
  <2>1. ASSUME NEW h \in Hosts, RollHost(h), UNCHANGED <<job, stray>> PROVE SameJob /\ SamePlans
    <3>1. /\ done'.sha = done.sha /\ done'.plan = done.plan /\ done'.updated = done.updated
          /\ done'.back = done.back /\ done'.stopped = done.stopped
      BY <1>0, <2>1 DEF RollHost, Checks
    <3> QED
      BY <2>1, <3>1 DEF SameJob, SamePlans, Alive
  <2> QED
    BY <1>4, <1>a, <2>1, RollSteps
<1>5. CASE \/ \E b \in Bundles : Upload(b)
           \/ \E h \in Hosts : Lost(h) \/ Back(h) \/ \E b \in Bundles : DeleteBundle(h, b)
           \/ \E h \in Hosts, k \in Dirs : Launch(h, k) \/ InstallFails(h, k) \/ Exits(h, k)
  BY <1>5, <1>b DEF Upload, Lost, Back, DeleteBundle, Launch, InstallFails, Exits
<1>6. CASE \E h \in Hosts : Crash(h) \/ \E k \in Dirs : Upgraded(h, k)
  <2>1. \E h \in Hosts : Restarts(h) /\ UNCHANGED <<done, stray>>
    BY <1>6 DEF Crash, Upgraded
  <2> QED
    BY <1>b, <1>c, <2>1 DEF Restarts, Alive
<1> QED
  BY <1>1, <1>2, <1>3, <1>4, <1>5, <1>6 DEF PlainStep

\* The other steps of the script that stay in the mode.
LEMMA PlanningSteps ==
  ASSUME UpdTypeOK,
         \/ Healthy \/ Offer \/ \E m \in BOOLEAN : Plan(m)
         \/ \E b \in Bundles : ChooseBundle(b) \/ PlanRollback(b)
  PROVE  SameJob
<1>0. job \in UpdJobs /\ done \in Checks
  BY DEF UpdTypeOK
<1>a. ASSUME NEW s \in {"failed", "succeeded"}, JobEnds(s), UNCHANGED <<done, stray>> PROVE SameJob
  BY <1>a, EndsJob DEF SameJob
<1>b. ASSUME UNCHANGED <<job, stray>>, done'.stopped = done.stopped PROVE SameJob
  BY <1>b DEF SameJob, Alive
<1>1. CASE Healthy
  <2>1. done'.stopped = done.stopped
    BY <1>0, <1>1 DEF Healthy, HostDone, Checks
  <2> QED
    BY <1>1, <1>b, <2>1 DEF Healthy
<1>2. CASE Offer
  <2>1. ASSUME NEW answer, done' = [done EXCEPT !.asked = answer, !.back = OnBundle(installed')]
        PROVE  done'.stopped = done.stopped
    BY <1>0, <2>1 DEF Checks
  <2> QED
    BY <1>2, <1>a, <1>b, <2>1, OfferSteps DEF Fail
<1>3. CASE \E m \in BOOLEAN : Plan(m)
  <2>1. ASSUME NEW m, NEW hosts, done' = [done EXCEPT !.plan = hosts, !.migrate = m]
        PROVE  done'.stopped = done.stopped
    BY <1>0, <2>1 DEF Checks
  <2> QED
    BY <1>3, <1>a, <1>b, <2>1 DEF Plan
<1>4. CASE \E b \in Bundles : ChooseBundle(b)
  <2>1. done'.stopped = done.stopped
    BY <1>0, <1>4 DEF ChooseBundle, Checks
  <2> QED
    BY <1>4, <1>b, <2>1 DEF ChooseBundle
<1>5. CASE \E b \in Bundles : PlanRollback(b)
  <2>1. ASSUME NEW b, NEW hosts, done' = [done EXCEPT !.sha = b, !.back = hosts]
        PROVE  done'.stopped = done.stopped
    BY <1>0, <2>1 DEF Checks
  <2> QED
    BY <1>5, <1>b, <2>1 DEF PlanRollback
<1> QED
  BY <1>1, <1>2, <1>3, <1>4, <1>5

\* A host's turn is one host's.
LEMMA FirstIsOne ==
  ASSUME NEW hosts \in SUBSET Hosts, NEW g \in Hosts, NEW h \in Hosts, First(g, hosts), First(h, hosts)
  PROVE  g = h
<1>1. Hosts \subseteq Nat
  BY UpdAssumption
<1> QED
  BY <1>1 DEF First, InTurn

\* An update of which nothing is left behind has one install under way.
LEMMA NoneUnderway ==
  ASSUME UpdInv, job.state = "running", Mode = "update", ~stray,
         pc.at \in {"drain", "install", "await", "health"}, ~Underway(install[pc.host][Key(Mode)]),
         NEW h \in Hosts, NEW k \in Dirs
  PROVE  ~Underway(install[h][k])
<1> SUFFICES ASSUME Underway(install[h][k]) PROVE FALSE
  OBVIOUS
<1>1. k = Key("update") /\ Alive /\ pc.host \in Hosts /\ done.plan \in SUBSET Hosts
  BY UpdFields DEF UpdInv, OneAtATime, Alive
<1>2. install[h][k].state # "none" /\ ~install[h][k].settled
  BY DEF UpdInv, OneAtATime, Underway
<1>3. First(h, done.plan \ done.updated)
  BY <1>1, <1>2 DEF UpdInv, UpdateInTurn, Asked
<1>4. First(pc.host, done.plan \ done.updated)
  BY DEF UpdInv, PlaceFits
<1>5. h = pc.host
  BY <1>1, <1>3, <1>4, FirstIsOne
<1> QED
  BY <1>1, <1>5

LEMMA OneStep ==
  ASSUME UpdInv, UpdTypeOK', UpdNext
  PROVE  OneAtATime'
<1>0. HostsTyped /\ UpdTypeOK /\ OneAtATime /\ PlaceFits
  BY DEF UpdInv, UpdTypeOK
<1>a. ASSUME SameJob,
             \A g \in Hosts, q \in Dirs :
               /\ install'[g][q].settled => install'[g][q].state = "exited"
               /\ install'[g][q].state # "none" => install[g][q].state # "none" \/ (Alive /\ q = Key(Mode))
               /\ Underway(install'[g][q]) => Underway(install[g][q]) \/ (Alive /\ q = Key(Mode))
      PROVE  OneAtATime'
  <2>1. Mode' = Mode /\ \A m : Key(m)' = Key(m)
    BY <1>a, SameMode DEF SameJob
  <2>2. job.id \in Nat /\ job'.id = job.id /\ (stray' <=> stray) /\ (Alive' => Alive)
    BY <1>0, <1>a, UpdFields, UpdAssumption DEF SameJob
  <2>3. Alive => Key(Mode) \in Dirs /\ Key(Mode)[1] = job.id /\ Key("rollback") \in Dirs /\ Key("rollback")[2] = "rollback"
                 /\ Key(Mode)[2] = Mode
    BY <1>0, KeyType, UpdFields DEF Alive, Modes
  <2>4. \A h \in Hosts, k \in Dirs :
         /\ k[1] > job'.id => install'[h][k].state = "none"
         /\ install'[h][k].settled => install'[h][k].state = "exited"
         /\ Alive' /\ ~stray' /\ Underway(install'[h][k]) => k = Key(Mode)
    BY <1>0, <1>a, <2>2, <2>3 DEF OneAtATime
  <2>5. Alive' /\ Mode = "update" => \A h \in Hosts : install'[h][Key("rollback")].state = "none"
    BY <1>0, <1>a, <2>2, <2>3 DEF OneAtATime, Asked
  <2> QED
    BY <2>1, <2>4, <2>5 DEF OneAtATime, Asked
<1>b. ASSUME SameJob, UNCHANGED install PROVE OneAtATime'
  BY <1>0, <1>a, <1>b DEF OneAtATime
<1>c. ASSUME SameJob, NEW H, NEW k, Settling(H, k) PROVE OneAtATime'
  <2>1. \A g \in Hosts, q \in Dirs :
               /\ install'[g][q].settled => install'[g][q].state = "exited"
               /\ install'[g][q].state = install[g][q].state
    BY <1>0, <1>c DEF Settling, Alike, Settles, OneAtATime
  <2> QED
    BY <1>a, <1>c, <2>1 DEF Underway
<1>d. ASSUME job.state = "running", HostFailed, pc.at \in {"drain", "install", "await", "health"},
             \A g \in Hosts, q \in Dirs :
               /\ install'[g][q].settled => install'[g][q].state = "exited"
               /\ install'[g][q].state = install[g][q].state
      PROVE  OneAtATime'
  <2>1. /\ job'.id = job.id
        /\ Alive' => Mode = "update" /\ Mode' = "rollback"
        /\ stray' <=> stray \/ Underway(install[pc.host][Key(Mode)])
    BY <1>0, <1>d, HostFailedStep
  <2>2. \A g \in Hosts, q \in Dirs : Alive' /\ ~stray' => ~Underway(install'[g][q])
    BY <1>d, <2>1, NoneUnderway DEF Underway
  <2> QED
    BY <1>0, <1>d, <2>1, <2>2 DEF OneAtATime
<1>e. ASSUME job.state = "running", HostFailed, pc.at \in {"drain", "install", "await", "health"}, UNCHANGED install
      PROVE  OneAtATime'
  BY <1>0, <1>d, <1>e DEF OneAtATime
<1>1. CASE \E op \in Modes : StartJob(op)
  <2>1. UNCHANGED install /\ job'.id = job.id + 1
    BY <1>1 DEF StartJob
  <2>5. ~stray' => \A h \in Hosts, k \in Dirs : ~Underway(install[h][k])
    BY <1>1 DEF StartJob
  <2>2. job.id \in Nat
    BY <1>0, UpdFields
  <2>3. \A m : Key(m)' = <<job.id + 1, m>>
    BY <2>1 DEF Key
  <2>4. <<job.id + 1, "rollback">> \in Dirs
    BY <1>0, <1>1, <2>2, UpdAssumption DEF StartJob, Dirs, JobIds, Modes
  <2>6. \A k \in Dirs : k[1] \in Nat
    BY DEF Dirs, JobIds
  <2>7. \A h \in Hosts : install[h][<<job.id + 1, "rollback">>].state = "none"
    BY <1>0, <2>2, <2>4 DEF OneAtATime
  <2>8. \A h \in Hosts, k \in Dirs : k[1] > job.id + 1 => install[h][k].state = "none"
    BY <1>0, <2>2, <2>6 DEF OneAtATime
  <2> QED
    BY <1>0, <2>1, <2>3, <2>5, <2>7, <2>8 DEF OneAtATime, Asked
<1>2. CASE Drain
  <2>1. CASE HostFailed
    BY <1>2, <1>e, <2>1 DEF Drain, At
  <2>2. CASE UNCHANGED <<job, done, stray, hitches>>
    BY <1>2, <1>b, <2>2 DEF Drain, SameJob, Alive
  <2> QED
    BY <1>2, <2>1, <2>2 DEF Drain
<1>3. CASE GivesUp \/ Unhealthy
  BY <1>3, <1>e DEF GivesUp, Unhealthy, At
<1>4. CASE AskInstall
  <2>1. CASE HostFailed /\ UNCHANGED hostVars
    BY <1>0, <1>4, <1>e, <2>1, AskSteps DEF hostVars
  <2>2. CASE UNCHANGED <<job, done, stray>> /\ Settling({pc.host}, Key(Mode))
    BY <1>c, <2>2 DEF SameJob, Alive
  <2>3. CASE UNCHANGED <<job, done, stray>> /\ Beginning(pc.host, Key(Mode), done.sha)
    <3>1. SameJob /\ Alive
      BY <1>0, <1>4, <2>3, AskSteps DEF SameJob, Alive
    <3> QED
      BY <1>0, <1>a, <2>3, <3>1 DEF Beginning, OneAtATime
  <2> QED
    BY <1>0, <1>4, <2>1, <2>2, <2>3, AskSteps
<1>5. CASE Await
  <2>0. Settling({pc.host}, Key(Mode)) /\ job.state = "running" /\ pc.at = "await"
    BY <1>0, <1>5, AwaitSteps
  <2>1. CASE HostFailed
    <3>1. \A g \in Hosts, q \in Dirs :
               /\ install'[g][q].settled => install'[g][q].state = "exited"
               /\ install'[g][q].state = install[g][q].state
      BY <1>0, <2>0 DEF Settling, Alike, Settles, OneAtATime
    <3> QED
      BY <1>d, <2>0, <2>1, <3>1
  <2>2. CASE UNCHANGED <<job, done, stray>>
    BY <1>c, <2>0, <2>2 DEF SameJob, Alive
  <2> QED
    BY <1>0, <1>5, <2>1, <2>2, AwaitSteps
<1>6. CASE Offer
  BY <1>0, <1>6, <1>c, OfferSteps, PlanningSteps
<1>7. CASE Healthy \/ (\E m \in BOOLEAN : Plan(m)) \/ \E b \in Bundles : ChooseBundle(b) \/ PlanRollback(b)
  BY <1>0, <1>7, <1>b, QuietSteps, PlanningSteps
<1>8. CASE PlainStep
  <2>0. SameJob
    BY <1>0, <1>8, PlainSteps
  <2>1. CASE UNCHANGED install
    BY <1>b, <2>0, <2>1
  <2>2. CASE NextRollback
    BY <1>0, <1>b, <1>c, <2>0, <2>2, RollSteps DEF hostVars
  <2>3. ASSUME NEW h \in Hosts, Crash(h) PROVE OneAtATime'
    <3>1. \A g \in Hosts, q \in Dirs :
               /\ install'[g][q].settled <=> install[g][q].settled
               /\ install'[g][q].state = IF g = h /\ install[g][q].state = "fetching" THEN "orphaned"
                                                                               ELSE install[g][q].state
      BY <1>0, <2>3, RestartStep
    <3> QED
      BY <1>0, <1>a, <2>0, <3>1 DEF OneAtATime, Underway
  <2>4. ASSUME NEW h \in Hosts, NEW k \in Dirs, Launch(h, k) PROVE OneAtATime'
    <3>1. /\ install[h][k].state = "fetching"
          /\ install'[h][k].state = "installing" /\ (install'[h][k].settled <=> install[h][k].settled)
          /\ \A g \in Hosts, q \in Dirs : <<g, q>> # <<h, k>> => install'[g][q] = install[g][q]
      BY <1>0, <2>4, LaunchStep
    <3> QED
      BY <1>0, <1>a, <2>0, <3>1 DEF OneAtATime, Underway
  <2>5. ASSUME NEW h \in Hosts, NEW k \in Dirs, InstallFails(h, k) \/ Exits(h, k) PROVE OneAtATime'
    <3>1. /\ \/ install[h][k].state = "upgraded" /\ install'[h][k].state = "exited"
             \/ install[h][k].state \in {"fetching", "installing"} /\ install'[h][k].state = "failed"
          /\ install'[h][k].settled <=> install[h][k].settled
          /\ \A g \in Hosts, q \in Dirs : <<g, q>> # <<h, k>> => install'[g][q] = install[g][q]
      BY <1>0, <2>5, MoveStep
    <3> QED
      BY <1>0, <1>a, <2>0, <3>1 DEF OneAtATime, Underway
  <2>6. ASSUME NEW h \in Hosts, NEW k \in Dirs, Upgraded(h, k) PROVE OneAtATime'
    <3>1. /\ install[h][k].state = "installing"
          /\ \A g \in Hosts, q \in Dirs :
               /\ install'[g][q].settled <=> install[g][q].settled
               /\ install'[g][q].state =
                   IF g = h /\ q = k THEN "upgraded"
                   ELSE IF g = h /\ install[g][q].state = "fetching" THEN "orphaned" ELSE install[g][q].state
      BY <1>0, <2>6, UpgradedStep
    <3> QED
      BY <1>0, <1>a, <2>0, <3>1 DEF OneAtATime, Underway
  <2> QED
    BY <1>8, <2>1, <2>2, <2>3, <2>4, <2>5, <2>6, QuietSteps DEF PlainStep
<1> QED
  BY <1>1, <1>2, <1>3, <1>4, <1>5, <1>6, <1>7, <1>8 DEF UpdNext, PlainStep

-----------------------------------------------------------------------------
(* The update goes from host to host.                                      *)

\* What UpdateInTurn says of a host, its install, what it runs and records.
HadTurn(h, i, b, c, sha, plan, updated) ==
    /\ i.state # "none" => i.sha = sha /\ (h \in updated \/ First(h, plan \ updated))
    /\ i.state \in {"installing", "upgraded", "exited"} => i.after.current = sha
    /\ i.state \in {"upgraded", "exited"} => b = sha
    /\ i.settled => c.current = sha
    /\ h \in updated => i.settled
    /\ plan # {} /\ h \notin plan => b = sha /\ c.current = sha

LEMMA HadTurnIs ==
  ASSUME Alive, Mode = "update", ~stray
  PROVE  UpdateInTurn <=>
           /\ done.updated \subseteq done.plan
           /\ \A h \in Hosts : HadTurn(h, install[h][Key("update")], running[h], installed[h], done.sha, done.plan, done.updated)
BY DEF UpdateInTurn, HadTurn, Asked, Runs

LEMMA HadTurnIsNext ==
  ASSUME (Alive /\ Mode = "update" /\ ~stray)' =>
           /\ done'.updated \subseteq done'.plan
           /\ \A h \in Hosts :
                HadTurn(h, install'[h][Key("update")'], running'[h], installed'[h], done'.sha, done'.plan, done'.updated)
  PROVE  UpdateInTurn'
BY DEF UpdateInTurn, HadTurn, Asked, Runs, First

LEMMA UpdateStep ==
  ASSUME UpdInv, UpdTypeOK', UpdNext
  PROVE  UpdateInTurn'
<1> DEFINE K == Key("update")
           T(h) == HadTurn(h, install[h][K], running[h], installed[h], done.sha, done.plan, done.updated)
           N(h) == HadTurn(h, install'[h][K], running'[h], installed'[h], done.sha, done.plan, done.updated)
<1>0. HostsTyped /\ UpdTypeOK /\ OneAtATime /\ PlaceFits /\ UpdateInTurn
  BY DEF UpdInv, UpdTypeOK
<1>a. ASSUME SameJob, Alive /\ Mode = "update" /\ ~stray => UpdateInTurn' PROVE UpdateInTurn'
  <2>1. Mode' = Mode /\ (Alive' => Alive) /\ stray' = stray
    BY <1>a, SameMode DEF SameJob
  <2> QED
    BY <1>a, <2>1 DEF UpdateInTurn
<1>b. ASSUME Alive, Mode = "update", ~stray
      PROVE  /\ done.updated \subseteq done.plan /\ \A h \in Hosts : T(h)
             /\ K \in Dirs /\ K[2] = "update"
  BY <1>0, <1>b, HadTurnIs, KeyType DEF Alive, Modes
<1>c. ASSUME SameJob, SamePlans, Alive /\ Mode = "update" /\ ~stray => \A h \in Hosts : N(h) PROVE UpdateInTurn'
  <2>1. SUFFICES ASSUME Alive, Mode = "update", ~stray PROVE UpdateInTurn'
    BY <1>a, <1>c
  <2>2. Key("update")' = K
    BY <1>c, SameMode DEF SameJob
  <2>3. \A h \in Hosts : HadTurn(h, install'[h][Key("update")'], running'[h], installed'[h], done'.sha, done'.plan, done'.updated)
    BY <1>c, <2>1, <2>2 DEF SamePlans
  <2>4. done'.updated \subseteq done'.plan
    BY <1>b, <1>c, <2>1 DEF SamePlans
  <2> QED
    BY <2>3, <2>4, HadTurnIsNext
<1>d. ASSUME SameJob, SamePlans, UNCHANGED <<running, installed, install>> PROVE UpdateInTurn'
  <2>1. Alive /\ Mode = "update" /\ ~stray => \A h \in Hosts : N(h)
    BY <1>b, <1>d
  <2> QED
    BY <1>c, <1>d, <2>1
<1>e. ASSUME SameJob, SamePlans, NEW H \in SUBSET Hosts, NEW k \in Dirs, Settling(H, k), Mode = "update" => k = K PROVE UpdateInTurn'
  <2>1. ASSUME Alive, Mode = "update", ~stray, NEW h \in Hosts PROVE N(h)
    <3>1. T(h) /\ K \in Dirs /\ k = K
      BY <1>b, <1>e, <2>1
    <3>2. Alike(install'[h][K], install[h][K]) /\ running'[h] = running[h]
      BY <1>e, <3>1 DEF Settling
    <3>3. CASE h \in H /\ Settles(h, K)
      <4>1. installed'[h] = install[h][K].after /\ install[h][K].state = "exited"
        BY <1>e, <3>1, <3>3 DEF Settling, Settles
      <4>2. install'[h][K].settled
        BY <1>e, <3>1, <3>3 DEF Settling
      <4> QED
        BY <3>1, <3>2, <4>1, <4>2 DEF HadTurn, Alike
    <3>4. CASE ~(h \in H /\ Settles(h, K))
      <4>1. installed'[h] = installed[h] /\ (install'[h][K].settled <=> install[h][K].settled)
        BY <1>e, <3>1, <3>4 DEF Settling
      <4> QED
        BY <3>1, <3>2, <4>1 DEF HadTurn, Alike
    <3> QED
      BY <3>3, <3>4
  <2> QED
    BY <1>c, <1>e, <2>1
<1>f. ASSUME job.state = "running", HostFailed PROVE UpdateInTurn'
  BY <1>0, <1>f, HostFailedStep DEF UpdateInTurn
<1>1. CASE \E op \in Modes : StartJob(op)
  <2>1. UNCHANGED install /\ job'.id = job.id + 1 /\ done' = NoChecks /\ job.id < MaxJobs
    BY <1>1 DEF StartJob
  <2>2. job.id \in Nat /\ <<job.id + 1, "update">> \in Dirs
    BY <1>0, <2>1, UpdFields, UpdAssumption DEF Dirs, JobIds, Modes
  <2>3. Key("update")' = <<job.id + 1, "update">>
    BY <2>1 DEF Key
  <2>4. \A h \in Hosts : install[h][<<job.id + 1, "update">>].state = "none" /\ ~install[h][<<job.id + 1, "update">>].settled
    BY <1>0, <2>2 DEF OneAtATime
  <2>5. \A h \in Hosts : HadTurn(h, install'[h][Key("update")'], running'[h], installed'[h], done'.sha, done'.plan, done'.updated)
    BY <2>1, <2>3, <2>4 DEF HadTurn, NoChecks
  <2> QED
    BY <2>1, <2>5, HadTurnIsNext DEF NoChecks
<1>2. CASE Drain
  <2>1. CASE HostFailed
    BY <1>2, <1>f, <2>1 DEF Drain, At
  <2>2. CASE UNCHANGED <<job, done, stray, hitches>>
    BY <1>2, <1>d, <2>2 DEF Drain, SameJob, SamePlans, Alive
  <2> QED
    BY <1>2, <2>1, <2>2 DEF Drain
<1>3. CASE GivesUp \/ Unhealthy
  BY <1>3, <1>f DEF GivesUp, Unhealthy, At
<1>4. CASE AskInstall
  <2>0. job.state = "running" /\ pc.at = "install"
    BY <1>0, <1>4, AskSteps
  <2>1. CASE HostFailed
    BY <1>f, <2>0, <2>1
  <2>2. CASE UNCHANGED <<job, done, stray>> /\ Settling({pc.host}, Key(Mode))
    <3>1. pc.host \in Hosts /\ Key(Mode) \in Dirs
      BY <1>0, <2>0, UpdFields, KeyType
    <3> QED
      BY <1>e, <2>2, <3>1 DEF SameJob, SamePlans, Alive
  <2>3. CASE UNCHANGED <<job, done, stray>> /\ Beginning(pc.host, Key(Mode), done.sha)
    <3>1. ASSUME Alive, Mode = "update", ~stray, NEW h \in Hosts PROVE N(h)
      <4>1. T(h) /\ K \in Dirs /\ done.updated \subseteq done.plan
        BY <1>b, <3>1
      <4>2. CASE h # pc.host
        BY <2>3, <3>1, <4>1, <4>2 DEF Beginning
      <4>3. CASE h = pc.host
        <5>1. First(h, done.plan \ done.updated)
          BY <1>0, <2>0, <3>1, <4>3 DEF PlaceFits
        <5>2. install'[h][K].state = "fetching" /\ ~install'[h][K].settled /\ install'[h][K].sha = done.sha
              /\ running' = running /\ installed' = installed
          BY <2>3, <3>1, <4>3 DEF Beginning
        <5>3. h \notin done.updated /\ h \in done.plan
          BY <5>1 DEF First
        <5> QED
          BY <4>1, <5>1, <5>2, <5>3 DEF HadTurn
      <4> QED
        BY <4>2, <4>3
    <3> QED
      BY <1>c, <2>3, <3>1 DEF SameJob, SamePlans, Alive
  <2> QED
    BY <1>0, <1>4, <2>1, <2>2, <2>3, AskSteps
<1>5. CASE Await
  <2>0. Settling({pc.host}, Key(Mode)) /\ job.state = "running" /\ pc.at = "await"
    BY <1>0, <1>5, AwaitSteps
  <2>1. CASE HostFailed
    BY <1>f, <2>0, <2>1
  <2>2. CASE UNCHANGED <<job, done, stray>>
    <3>1. pc.host \in Hosts /\ Key(Mode) \in Dirs
      BY <1>0, <2>0, UpdFields, KeyType
    <3> QED
      BY <1>e, <2>0, <2>2, <3>1 DEF SameJob, SamePlans, Alive
  <2> QED
    BY <1>0, <1>5, <2>1, <2>2, AwaitSteps
<1>6. CASE Offer \/ \E b \in Bundles : PlanRollback(b)
  <2>1. SameJob /\ Mode = "rollback"
    BY <1>0, <1>6, PlanningSteps, OfferSteps DEF PlaceFits, PlanRollback, Mode
  <2> QED
    BY <1>a, <2>1
<1>7. CASE Healthy
  <2>1. SameJob /\ UNCHANGED <<running, installed, install>> /\ pc.at = "health" /\ job.state = "running"
    BY <1>0, <1>7, PlanningSteps, QuietSteps DEF Healthy, At
  <2>2. SUFFICES ASSUME Alive, Mode = "update", ~stray PROVE UpdateInTurn'
    BY <1>a, <2>1
  <2>3. done'.updated = done.updated \cup {pc.host} /\ done'.plan = done.plan /\ done'.sha = done.sha
    BY <1>0, <1>7, <2>2 DEF Healthy, HostDone, UpdTypeOK, Checks
  <2>4. First(pc.host, done.plan \ done.updated) /\ install[pc.host][K].settled /\ pc.host \in Hosts
    BY <1>0, <2>1, <2>2, UpdFields DEF PlaceFits, Asked
  <2>5. Key("update")' = K
    BY <2>1, SameMode DEF SameJob
  <2>6. ASSUME NEW h \in Hosts
        PROVE  HadTurn(h, install[h][K], running[h], installed[h], done.sha, done.plan, done.updated \cup {pc.host})
    <3>1. T(h)
      BY <1>b, <2>2
    <3>2. install[h][K].state # "none" /\ h \notin done.updated => h = pc.host
      BY <1>0, <2>4, <3>1, FirstIsOne, UpdFields DEF HadTurn
    <3> QED
      BY <2>4, <3>1, <3>2 DEF HadTurn
  <2>7. done'.updated \subseteq done'.plan
    BY <1>b, <2>2, <2>3, <2>4 DEF First
  <2>8. \A h \in Hosts : HadTurn(h, install'[h][Key("update")'], running'[h], installed'[h], done'.sha, done'.plan, done'.updated)
    BY <2>1, <2>3, <2>5, <2>6
  <2> QED
    BY <2>7, <2>8, HadTurnIsNext
<1>8. CASE \E m \in BOOLEAN : Plan(m)
  <2>0. PICK m \in BOOLEAN : Plan(m)
    BY <1>8
  <2>1. SameJob /\ UNCHANGED <<running, installed, install>> /\ pc.at = "plan"
    BY <1>0, <1>8, PlanningSteps, QuietSteps DEF Plan, At
  <2>2. CASE UNCHANGED done
    BY <1>d, <2>1, <2>2 DEF SamePlans
  <2>3. CASE done' = [done EXCEPT !.plan = {h \in Hosts : ~Runs(h, done.sha)}, !.migrate = m]
    <3>1. SUFFICES ASSUME Alive, Mode = "update", ~stray PROVE UpdateInTurn'
      BY <1>a, <2>1
    <3>2. done'.updated = done.updated /\ done'.plan = {h \in Hosts : ~Runs(h, done.sha)} /\ done'.sha = done.sha
      BY <1>0, <2>3 DEF UpdTypeOK, Checks
    <3>3. done.plan = {} /\ done.updated = {} /\ \A h \in Hosts : T(h)
      BY <1>0, <1>b, <2>1, <3>1 DEF PlaceFits
    <3>4. Key("update")' = K
      BY <2>1, SameMode DEF SameJob
    <3>5. ASSUME NEW h \in Hosts
          PROVE  HadTurn(h, install[h][K], running[h], installed[h], done.sha, {g \in Hosts : ~Runs(g, done.sha)}, {})
      <4>1. T(h) /\ install[h][K].state = "none"
        BY <3>3 DEF HadTurn, First
      <4> QED
        BY <3>3, <4>1 DEF HadTurn, Runs
    <3>6. \A h \in Hosts : HadTurn(h, install'[h][Key("update")'], running'[h], installed'[h], done'.sha, done'.plan, done'.updated)
      BY <2>1, <3>2, <3>3, <3>4, <3>5
    <3> QED
      BY <3>2, <3>3, <3>6, HadTurnIsNext
  <2> QED
    BY <2>0, <2>2, <2>3 DEF Plan
<1>9. CASE \E b \in Bundles : ChooseBundle(b)
  <2>0. PICK b \in Bundles : ChooseBundle(b)
    BY <1>9
  <2>1. SameJob /\ UNCHANGED <<running, installed, install>> /\ done.sha = NoBundle
    BY <1>0, <2>0, PlanningSteps, QuietSteps DEF ChooseBundle
  <2>2. SUFFICES ASSUME Alive, Mode = "update", ~stray PROVE UpdateInTurn'
    BY <1>a, <2>1
  <2>3. done'.updated = done.updated /\ done'.plan = done.plan /\ done'.sha = b
    BY <1>0, <2>0 DEF ChooseBundle, UpdTypeOK, Checks
  <2>4. done.plan = {} /\ done.updated = {} /\ \A h \in Hosts : T(h)
    BY <1>0, <1>b, <2>1, <2>2 DEF PlaceFits
  <2>5. Key("update")' = K /\ K \in Dirs
    BY <1>b, <2>1, <2>2, SameMode DEF SameJob
  <2>6. ASSUME NEW h \in Hosts PROVE HadTurn(h, install[h][K], running[h], installed[h], b, {}, {})
    <3>1. install[h][K].state = "none"
      BY <2>4 DEF HadTurn, First
    <3>2. ~install[h][K].settled
      BY <1>0, <2>5, <3>1 DEF OneAtATime
    <3> QED
      BY <3>1, <3>2 DEF HadTurn
  <2>7. \A h \in Hosts : HadTurn(h, install'[h][Key("update")'], running'[h], installed'[h], done'.sha, done'.plan, done'.updated)
    BY <2>1, <2>3, <2>4, <2>5, <2>6
  <2> QED
    BY <2>3, <2>4, <2>7, HadTurnIsNext
<1>10. CASE PlainStep
  <2>0. SameJob /\ SamePlans
    BY <1>0, <1>10, PlainSteps
  <2>1. CASE UNCHANGED <<running, installed, install>>
    BY <1>d, <2>0, <2>1
  <2>2. CASE NextRollback
    <3>1. Mode = "rollback"
      BY <1>0, <2>2, RollSteps DEF PlaceFits
    <3> QED
      BY <1>a, <2>0, <3>1
  <2>3. ASSUME NEW g \in Hosts, Crash(g) PROVE UpdateInTurn'
    <3>1. ASSUME Alive, Mode = "update", ~stray, NEW h \in Hosts PROVE N(h)
      <4>1. T(h) /\ K \in Dirs
        BY <1>b, <3>1
      <4>2. UNCHANGED <<running, installed>>
            /\ (install'[h][K].settled <=> install[h][K].settled)
            /\ install'[h][K].sha = install[h][K].sha /\ install'[h][K].after = install[h][K].after
            /\ install'[h][K].state = IF h = g /\ install[h][K].state = "fetching" THEN "orphaned"
                                                                               ELSE install[h][K].state
        BY <1>0, <2>3, <4>1, RestartStep
      <4> QED
        BY <4>1, <4>2 DEF HadTurn
    <3> QED
      BY <1>c, <2>0, <3>1
  <2>4. ASSUME NEW g \in Hosts, NEW k \in Dirs, Launch(g, k) PROVE UpdateInTurn'
    <3>1. ASSUME Alive, Mode = "update", ~stray, NEW h \in Hosts PROVE N(h)
      <4>1. T(h) /\ K \in Dirs /\ K[2] = "update"
        BY <1>b, <3>1
      <4>2. /\ running' = running /\ installed' = installed
            /\ install[g][k].state = "fetching"
            /\ install'[g][k].state = "installing" /\ (install'[g][k].settled <=> install[g][k].settled)
            /\ install'[g][k].sha = install[g][k].sha
            /\ k[2] = "update" => install'[g][k].after.current = install[g][k].sha
            /\ \A a \in Hosts, q \in Dirs : <<a, q>> # <<g, k>> => install'[a][q] = install[a][q]
        BY <1>0, <2>4, LaunchStep
      <4>3. CASE <<h, K>> = <<g, k>>
        BY <4>1, <4>2, <4>3 DEF HadTurn
      <4>4. CASE <<h, K>> # <<g, k>>
        BY <4>1, <4>2, <4>4
      <4> QED
        BY <4>3, <4>4
    <3> QED
      BY <1>c, <2>0, <3>1
  <2>5. ASSUME NEW g \in Hosts, NEW k \in Dirs, InstallFails(g, k) \/ Exits(g, k) PROVE UpdateInTurn'
    <3>1. ASSUME Alive, Mode = "update", ~stray, NEW h \in Hosts PROVE N(h)
      <4>1. T(h) /\ K \in Dirs
        BY <1>b, <3>1
      <4>2. /\ running' = running /\ installed' = installed
            /\ \/ install[g][k].state = "upgraded" /\ install'[g][k].state = "exited"
               \/ install[g][k].state \in {"fetching", "installing"} /\ install'[g][k].state = "failed"
            /\ install'[g][k].settled <=> install[g][k].settled
            /\ install'[g][k].sha = install[g][k].sha /\ install'[g][k].after = install[g][k].after
            /\ \A a \in Hosts, q \in Dirs : <<a, q>> # <<g, k>> => install'[a][q] = install[a][q]
        BY <1>0, <2>5, MoveStep
      <4>3. CASE <<h, K>> = <<g, k>>
        BY <4>1, <4>2, <4>3 DEF HadTurn
      <4>4. CASE <<h, K>> # <<g, k>>
        BY <4>1, <4>2, <4>4
      <4> QED
        BY <4>3, <4>4
    <3> QED
      BY <1>c, <2>0, <3>1
  <2>6. ASSUME NEW g \in Hosts, NEW k \in Dirs, Upgraded(g, k) PROVE UpdateInTurn'
    <3>1. ASSUME Alive, Mode = "update", ~stray, NEW h \in Hosts PROVE N(h)
      <4>1. T(h) /\ K \in Dirs
        BY <1>b, <3>1
      <4>2. /\ installed' = installed /\ install[g][k].state = "installing"
            /\ running'[g] = install[g][k].after.current
            /\ h # g => running'[h] = running[h]
            /\ install'[h][K].settled <=> install[h][K].settled
            /\ install'[h][K].sha = install[h][K].sha /\ install'[h][K].after = install[h][K].after
            /\ install'[h][K].state =
                   IF h = g /\ K = k THEN "upgraded"
                   ELSE IF h = g /\ install[h][K].state = "fetching" THEN "orphaned" ELSE install[h][K].state
        BY <1>0, <2>6, <4>1, UpgradedStep
      <4>3. k = K
        BY <1>0, <3>1, <4>2 DEF OneAtATime, Underway
      <4> QED
        BY <4>1, <4>2, <4>3 DEF HadTurn
    <3> QED
      BY <1>c, <2>0, <3>1
  <2> QED
    BY <1>10, <2>1, <2>2, <2>3, <2>4, <2>5, <2>6, QuietSteps DEF PlainStep
<1> QED
  BY <1>1, <1>2, <1>3, <1>4, <1>5, <1>6, <1>7, <1>8, <1>9, <1>10 DEF UpdNext, PlainStep

-----------------------------------------------------------------------------
(* The rollback.                                                           *)

\* What RollbackInTurn says of a host.
Rolled(h, i, b, c, sha, back, lost) ==
    /\ i.state # "none" => i.sha = sha /\ h \in back
    /\ i.state \in {"installing", "upgraded", "exited"} => i.after.previous = sha
    /\ ~lost /\ i.state \in {"upgraded", "exited"} => b = i.after.current
    /\ i.settled => c = i.after
    /\ h \in back /\ ~i.settled => c.current = sha

LEMMA RolledIs ==
  ASSUME Alive, Mode = "rollback"
  PROVE  RollbackInTurn <=>
           \A h \in Hosts : Rolled(h, install[h][Key("rollback")], running[h], installed[h], done.sha, done.back, stray)
BY DEF RollbackInTurn, Rolled, Asked

LEMMA RolledIsNext ==
  ASSUME (Alive /\ Mode = "rollback")' =>
           \A h \in Hosts :
             Rolled(h, install'[h][Key("rollback")'], running'[h], installed'[h], done'.sha, done'.back, stray')
  PROVE  RollbackInTurn'
BY DEF RollbackInTurn, Rolled, Asked

LEMMA RollbackStep ==
  ASSUME UpdInv, UpdTypeOK', UpdNext
  PROVE  RollbackInTurn'
<1> DEFINE K == Key("rollback")
           R(h) == Rolled(h, install[h][K], running[h], installed[h], done.sha, done.back, stray)
           N(h) == Rolled(h, install'[h][K], running'[h], installed'[h], done.sha, done.back, stray)
<1>0. HostsTyped /\ UpdTypeOK /\ OneAtATime /\ PlaceFits /\ RollbackInTurn
  BY DEF UpdInv, UpdTypeOK
<1>a. ASSUME SameJob, Alive /\ Mode = "rollback" => RollbackInTurn' PROVE RollbackInTurn'
  <2>1. Mode' = Mode /\ (Alive' => Alive)
    BY <1>a, SameMode DEF SameJob
  <2> QED
    BY <1>a, <2>1 DEF RollbackInTurn
<1>b. ASSUME Alive, Mode = "rollback"
      PROVE  (\A h \in Hosts : R(h)) /\ K \in Dirs /\ K[2] = "rollback"
  BY <1>0, <1>b, RolledIs, KeyType DEF Alive, Modes
<1>c. ASSUME SameJob, SamePlans, Alive /\ Mode = "rollback" => \A h \in Hosts : N(h) PROVE RollbackInTurn'
  <2>1. SUFFICES ASSUME Alive, Mode = "rollback" PROVE RollbackInTurn'
    BY <1>a, <1>c
  <2>2. Key("rollback")' = K /\ stray' = stray
    BY <1>c, SameMode DEF SameJob
  <2>3. \A h \in Hosts : Rolled(h, install'[h][Key("rollback")'], running'[h], installed'[h], done'.sha, done'.back, stray')
    BY <1>c, <2>1, <2>2 DEF SamePlans
  <2> QED
    BY <2>3, RolledIsNext
<1>d. ASSUME SameJob, SamePlans, UNCHANGED <<running, installed, install>> PROVE RollbackInTurn'
  <2>1. Alive /\ Mode = "rollback" => \A h \in Hosts : N(h)
    BY <1>b, <1>d
  <2> QED
    BY <1>c, <1>d, <2>1
<1>e. ASSUME SameJob, SamePlans, NEW H \in SUBSET Hosts, NEW k \in Dirs, Settling(H, k), Mode = "rollback" => k = K
      PROVE  RollbackInTurn'
  <2>1. ASSUME Alive, Mode = "rollback", NEW h \in Hosts PROVE N(h)
    <3>1. R(h) /\ K \in Dirs /\ k = K
      BY <1>b, <1>e, <2>1
    <3>2. Alike(install'[h][K], install[h][K]) /\ running'[h] = running[h]
      BY <1>e, <3>1 DEF Settling
    <3>3. CASE h \in H /\ Settles(h, K)
      <4>1. installed'[h] = install[h][K].after /\ install'[h][K].settled
        BY <1>e, <3>1, <3>3 DEF Settling
      <4> QED
        BY <3>1, <3>2, <4>1 DEF Rolled, Alike
    <3>4. CASE ~(h \in H /\ Settles(h, K))
      <4>1. installed'[h] = installed[h] /\ (install'[h][K].settled <=> install[h][K].settled)
        BY <1>e, <3>1, <3>4 DEF Settling
      <4> QED
        BY <3>1, <3>2, <4>1 DEF Rolled, Alike
    <3> QED
      BY <3>3, <3>4
  <2> QED
    BY <1>c, <1>e, <2>1
<1>f. ASSUME job.state = "running", HostFailed,
             \A g \in Hosts, q \in Dirs : install'[g][q].settled => install'[g][q].state = "exited",
             \A g \in Hosts, q \in Dirs : install'[g][q].state = install[g][q].state
      PROVE  RollbackInTurn'
  <2>1. CASE ~Alive'
    BY <2>1 DEF RollbackInTurn
  <2>2. CASE Alive'
    <3>1. Mode = "update" /\ job'.id = job.id /\ done'.back = done.back /\ Alive
      BY <1>0, <1>f, <2>2, HostFailedStep DEF Alive
    <3>2. done.back = {} /\ Key("rollback")' = K /\ K \in Dirs
      BY <1>0, <1>f, <3>1, KeyType, UpdFields DEF PlaceFits, Mode, Key, Modes
    <3>3. \A h \in Hosts : install'[h][K].state = "none" /\ ~install'[h][K].settled
      BY <1>0, <1>f, <3>1, <3>2 DEF OneAtATime, Asked
    <3>4. \A h \in Hosts : Rolled(h, install'[h][Key("rollback")'], running'[h], installed'[h], done'.sha, done'.back, stray')
      BY <3>1, <3>2, <3>3 DEF Rolled
    <3> QED
      BY <3>4, RolledIsNext
  <2> QED
    BY <2>1, <2>2
<1>g. ASSUME job.state = "running", HostFailed, UNCHANGED install PROVE RollbackInTurn'
  BY <1>0, <1>f, <1>g DEF OneAtATime
<1>1. CASE \E op \in Modes : StartJob(op)
  <2>1. UNCHANGED install /\ job'.id = job.id + 1 /\ done' = NoChecks /\ job.id < MaxJobs
    BY <1>1 DEF StartJob
  <2>2. job.id \in Nat /\ <<job.id + 1, "rollback">> \in Dirs
    BY <1>0, <2>1, UpdFields, UpdAssumption DEF Dirs, JobIds, Modes
  <2>3. Key("rollback")' = <<job.id + 1, "rollback">>
    BY <2>1 DEF Key
  <2>4. \A h \in Hosts : install[h][<<job.id + 1, "rollback">>].state = "none" /\ ~install[h][<<job.id + 1, "rollback">>].settled
    BY <1>0, <2>2 DEF OneAtATime
  <2>5. \A h \in Hosts : Rolled(h, install'[h][Key("rollback")'], running'[h], installed'[h], done'.sha, done'.back, stray')
    BY <2>1, <2>3, <2>4 DEF Rolled, NoChecks
  <2> QED
    BY <2>5, RolledIsNext
<1>2. CASE Drain
  <2>1. CASE HostFailed
    BY <1>2, <1>g, <2>1 DEF Drain, At
  <2>2. CASE UNCHANGED <<job, done, stray, hitches>>
    BY <1>2, <1>d, <2>2 DEF Drain, SameJob, SamePlans, Alive
  <2> QED
    BY <1>2, <2>1, <2>2 DEF Drain
<1>3. CASE GivesUp \/ Unhealthy
  BY <1>3, <1>g DEF GivesUp, Unhealthy, At
<1>4. CASE AskInstall
  <2>0. job.state = "running" /\ pc.at = "install"
    BY <1>0, <1>4, AskSteps
  <2>1. CASE HostFailed /\ UNCHANGED hostVars
    BY <1>g, <2>0, <2>1 DEF hostVars
  <2>2. CASE UNCHANGED <<job, done, stray>> /\ Settling({pc.host}, Key(Mode))
    <3>1. pc.host \in Hosts /\ Key(Mode) \in Dirs
      BY <1>0, <2>0, UpdFields, KeyType
    <3> QED
      BY <1>e, <2>2, <3>1 DEF SameJob, SamePlans, Alive
  <2>3. CASE UNCHANGED <<job, done, stray>> /\ Beginning(pc.host, Key(Mode), done.sha)
    <3>1. ASSUME Alive, Mode = "rollback", NEW h \in Hosts PROVE N(h)
      <4>1. R(h) /\ K \in Dirs
        BY <1>b, <3>1
      <4>2. CASE h # pc.host
        BY <2>3, <3>1, <4>1, <4>2 DEF Beginning
      <4>3. CASE h = pc.host
        <5>1. h \in done.back
          BY <1>0, <2>0, <3>1, <4>3 DEF PlaceFits
        <5>2. install'[h][K].state = "fetching" /\ ~install'[h][K].settled /\ install'[h][K].sha = done.sha
              /\ running' = running /\ installed' = installed /\ install[h][K].state = "none"
          BY <2>3, <3>1, <4>3 DEF Beginning
        <5>3. ~install[h][K].settled
          BY <1>0, <4>1, <5>2 DEF OneAtATime
        <5> QED
          BY <4>1, <5>1, <5>2, <5>3 DEF Rolled
      <4> QED
        BY <4>2, <4>3
    <3> QED
      BY <1>c, <2>3, <3>1 DEF SameJob, SamePlans, Alive
  <2> QED
    BY <1>0, <1>4, <2>1, <2>2, <2>3, AskSteps
<1>5. CASE Await
  <2>0. Settling({pc.host}, Key(Mode)) /\ job.state = "running" /\ pc.at = "await"
    BY <1>0, <1>5, AwaitSteps
  <2>1. CASE HostFailed
    <3>1. \A g \in Hosts, q \in Dirs : (install'[g][q].settled => install'[g][q].state = "exited")
                                       /\ install'[g][q].state = install[g][q].state
      BY <1>0, <2>0 DEF Settling, Alike, Settles, OneAtATime
    <3> QED
      BY <1>f, <2>0, <2>1, <3>1
  <2>2. CASE UNCHANGED <<job, done, stray>>
    <3>1. pc.host \in Hosts /\ Key(Mode) \in Dirs
      BY <1>0, <2>0, UpdFields, KeyType
    <3> QED
      BY <1>e, <2>0, <2>2, <3>1 DEF SameJob, SamePlans, Alive
  <2> QED
    BY <1>0, <1>5, <2>1, <2>2, AwaitSteps
<1>6. CASE Offer
  <2>0. /\ job.state = "running" /\ pc.at = "offer" /\ done.asked = "no" /\ Settling(Hosts, K) /\ SameJob
        /\ Mode = "rollback" /\ K \in Dirs /\ done.back = {} /\ Alive /\ stray' = stray
    BY <1>0, <1>6, OfferSteps, PlanningSteps, KeyType DEF PlaceFits, Mode, Modes, Alive
  <2>1. CASE UNCHANGED done
    BY <1>e, <2>0, <2>1 DEF SamePlans
  <2>2. ASSUME NEW answer, done' = [done EXCEPT !.asked = answer, !.back = OnBundle(installed')] PROVE RollbackInTurn'
    <3>1. done'.sha = done.sha /\ done'.back = {h \in Hosts : installed'[h].current = done.sha}
      BY <1>0, <2>2 DEF OnBundle, UpdTypeOK, Checks
    <3>2. Key("rollback")' = K
      BY <2>0, SameMode DEF SameJob
    <3>3. ASSUME NEW h \in Hosts
          PROVE  Rolled(h, install'[h][K], running'[h], installed'[h], done.sha, done'.back, stray)
      <4>1. R(h)
        BY <1>b, <2>0
      <4>2. install[h][K].state = "none" /\ ~install[h][K].settled
        BY <1>0, <2>0, <4>1 DEF Rolled, OneAtATime
      <4>3. install'[h][K].state = "none" /\ ~install'[h][K].settled
        BY <2>0, <4>2 DEF Settling, Alike, Settles
      <4> QED
        BY <3>1, <4>3 DEF Rolled
    <3>4. \A h \in Hosts : Rolled(h, install'[h][Key("rollback")'], running'[h], installed'[h], done'.sha, done'.back, stray')
      BY <2>0, <3>1, <3>2, <3>3
    <3> QED
      BY <3>4, RolledIsNext
  <2> QED
    BY <1>0, <1>6, <2>1, <2>2, OfferSteps
<1>7. CASE \E b \in Bundles : PlanRollback(b)
  <2>0. PICK b \in Bundles : PlanRollback(b)
    BY <1>7
  <2>1. SameJob /\ UNCHANGED <<running, installed, install>> /\ done.back = {} /\ Alive /\ Mode = "rollback" /\ stray' = stray
    BY <1>0, <2>0, PlanningSteps, QuietSteps DEF PlanRollback, Alive, Mode, At
  <2>2. PICK hosts : /\ done' = [done EXCEPT !.sha = b, !.back = hosts]
                     /\ hosts = {h \in Hosts : installed[h].current = b /\ installed[h].previous # NoBundle}
    BY <2>0 DEF PlanRollback
  <2>3. done'.sha = b /\ done'.back = hosts
    BY <1>0, <2>2 DEF UpdTypeOK, Checks
  <2>4. Key("rollback")' = K
    BY <2>1, SameMode DEF SameJob
  <2>5. ASSUME NEW h \in Hosts PROVE Rolled(h, install[h][K], running[h], installed[h], b, hosts, stray)
    <3>1. R(h) /\ K \in Dirs
      BY <1>b, <2>1
    <3>2. install[h][K].state = "none" /\ ~install[h][K].settled
      BY <1>0, <2>1, <3>1 DEF Rolled, OneAtATime
    <3> QED
      BY <2>2, <3>2 DEF Rolled
  <2>6. \A h \in Hosts : Rolled(h, install'[h][Key("rollback")'], running'[h], installed'[h], done'.sha, done'.back, stray')
    BY <2>1, <2>3, <2>4, <2>5
  <2> QED
    BY <2>6, RolledIsNext
<1>8. CASE Healthy
  <2>1. SameJob /\ UNCHANGED <<running, installed, install>> /\ pc.at = "health" /\ job.state = "running" /\ stray' = stray
    BY <1>0, <1>8, PlanningSteps, QuietSteps DEF Healthy, At
  <2>2. SUFFICES ASSUME Alive, Mode = "rollback" PROVE RollbackInTurn'
    BY <1>a, <2>1
  <2>3. done'.back = done.back /\ done'.sha = done.sha
    BY <1>0, <1>8 DEF Healthy, HostDone, UpdTypeOK, Checks
  <2>4. Key("rollback")' = K
    BY <2>1, SameMode DEF SameJob
  <2>5. \A h \in Hosts : Rolled(h, install'[h][Key("rollback")'], running'[h], installed'[h], done'.sha, done'.back, stray')
    BY <1>b, <2>1, <2>2, <2>3, <2>4
  <2> QED
    BY <2>5, RolledIsNext
<1>9. CASE (\E m \in BOOLEAN : Plan(m)) \/ \E b \in Bundles : ChooseBundle(b)
  <2>1. SameJob
    BY <1>0, <1>9, PlanningSteps
  <2>2. Mode = "update"
    <3>1. CASE \E m \in BOOLEAN : Plan(m)
      BY <1>0, <3>1 DEF Plan, At, PlaceFits
    <3>2. CASE \E b \in Bundles : ChooseBundle(b)
      BY <1>0, <3>2 DEF ChooseBundle, At, PlaceFits, Mode
    <3> QED
      BY <1>9, <3>1, <3>2
  <2> QED
    BY <1>a, <2>1, <2>2
<1>10. CASE PlainStep
  <2>0. SameJob /\ SamePlans
    BY <1>0, <1>10, PlainSteps
  <2>1. CASE UNCHANGED <<running, installed, install>>
    BY <1>d, <2>0, <2>1
  <2>2. CASE NextRollback
    <3>1. Mode = "rollback" /\ job.state = "running" /\ K \in Dirs
      BY <1>0, <2>2, RollSteps, KeyType DEF PlaceFits, Modes
    <3> QED
      BY <1>0, <1>d, <1>e, <2>0, <2>2, <3>1, RollSteps DEF hostVars
  <2>3. ASSUME NEW g \in Hosts, Crash(g) PROVE RollbackInTurn'
    <3>1. ASSUME Alive, Mode = "rollback", NEW h \in Hosts PROVE N(h)
      <4>1. R(h) /\ K \in Dirs
        BY <1>b, <3>1
      <4>2. UNCHANGED <<running, installed>>
            /\ (install'[h][K].settled <=> install[h][K].settled)
            /\ install'[h][K].sha = install[h][K].sha /\ install'[h][K].after = install[h][K].after
            /\ install'[h][K].state = IF h = g /\ install[h][K].state = "fetching" THEN "orphaned"
                                                                               ELSE install[h][K].state
        BY <1>0, <2>3, <4>1, RestartStep
      <4> QED
        BY <4>1, <4>2 DEF Rolled
    <3> QED
      BY <1>c, <2>0, <3>1
  <2>4. ASSUME NEW g \in Hosts, NEW k \in Dirs, Launch(g, k) PROVE RollbackInTurn'
    <3>1. ASSUME Alive, Mode = "rollback", NEW h \in Hosts PROVE N(h)
      <4>1. R(h) /\ K \in Dirs /\ K[2] # "update"
        BY <1>b, <3>1
      <4>2. /\ running' = running /\ installed' = installed
            /\ install[g][k].state = "fetching"
            /\ install'[g][k].state = "installing" /\ (install'[g][k].settled <=> install[g][k].settled)
            /\ install'[g][k].sha = install[g][k].sha
            /\ k[2] # "update" => install'[g][k].after.previous = install[g][k].sha
            /\ \A a \in Hosts, q \in Dirs : <<a, q>> # <<g, k>> => install'[a][q] = install[a][q]
        BY <1>0, <2>4, LaunchStep
      <4>3. CASE <<h, K>> = <<g, k>>
        <5>1. ~install[h][K].settled
          BY <1>0, <4>1, <4>2, <4>3 DEF OneAtATime
        <5> QED
          BY <4>1, <4>2, <4>3, <5>1 DEF Rolled
      <4>4. CASE <<h, K>> # <<g, k>>
        BY <4>1, <4>2, <4>4
      <4> QED
        BY <4>3, <4>4
    <3> QED
      BY <1>c, <2>0, <3>1
  <2>5. ASSUME NEW g \in Hosts, NEW k \in Dirs, InstallFails(g, k) \/ Exits(g, k) PROVE RollbackInTurn'
    <3>1. ASSUME Alive, Mode = "rollback", NEW h \in Hosts PROVE N(h)
      <4>1. R(h) /\ K \in Dirs
        BY <1>b, <3>1
      <4>2. /\ running' = running /\ installed' = installed
            /\ \/ install[g][k].state = "upgraded" /\ install'[g][k].state = "exited"
               \/ install[g][k].state \in {"fetching", "installing"} /\ install'[g][k].state = "failed"
            /\ install'[g][k].settled <=> install[g][k].settled
            /\ install'[g][k].sha = install[g][k].sha /\ install'[g][k].after = install[g][k].after
            /\ \A a \in Hosts, q \in Dirs : <<a, q>> # <<g, k>> => install'[a][q] = install[a][q]
        BY <1>0, <2>5, MoveStep
      <4>3. CASE <<h, K>> = <<g, k>>
        BY <4>1, <4>2, <4>3 DEF Rolled
      <4>4. CASE <<h, K>> # <<g, k>>
        BY <4>1, <4>2, <4>4
      <4> QED
        BY <4>3, <4>4
    <3> QED
      BY <1>c, <2>0, <3>1
  <2>6. ASSUME NEW g \in Hosts, NEW k \in Dirs, Upgraded(g, k) PROVE RollbackInTurn'
    <3>1. ASSUME Alive, Mode = "rollback", NEW h \in Hosts PROVE N(h)
      <4>1. R(h) /\ K \in Dirs
        BY <1>b, <3>1
      <4>2. /\ installed' = installed /\ install[g][k].state = "installing"
            /\ running'[g] = install[g][k].after.current
            /\ h # g => running'[h] = running[h]
            /\ install'[h][K].settled <=> install[h][K].settled
            /\ install'[h][K].sha = install[h][K].sha /\ install'[h][K].after = install[h][K].after
            /\ install'[h][K].state =
                   IF h = g /\ K = k THEN "upgraded"
                   ELSE IF h = g /\ install[h][K].state = "fetching" THEN "orphaned" ELSE install[h][K].state
        BY <1>0, <2>6, <4>1, UpgradedStep
      <4>3. ~stray => k = K
        BY <1>0, <3>1, <4>2 DEF OneAtATime, Underway
      <4> QED
        BY <4>1, <4>2, <4>3 DEF Rolled
    <3> QED
      BY <1>c, <2>0, <3>1
  <2> QED
    BY <1>10, <2>1, <2>2, <2>3, <2>4, <2>5, <2>6, QuietSteps DEF PlainStep
<1> QED
  BY <1>1, <1>2, <1>3, <1>4, <1>5, <1>6, <1>7, <1>8, <1>9, <1>10 DEF UpdNext, PlainStep

-----------------------------------------------------------------------------
(* The theorems.                                                           *)

LEMMA UpdStart == UpdInit => UpdInv
<1> SUFFICES ASSUME UpdInit PROVE UpdInv
  OBVIOUS
<1>0. PICK b \in Bundles, seeded \in SUBSET Hosts :
      /\ running = [h \in Hosts |-> b]
      /\ installed = [h \in Hosts |-> [current |-> IF h \in seeded THEN b ELSE NoBundle, previous |-> NoBundle]]
      /\ store = [h \in Hosts |-> IF h \in seeded THEN {b} ELSE {}]
      /\ install = [h \in Hosts |-> [k \in Dirs |-> NoInstall]]
      /\ answers = Hosts
      /\ schema = SchemaOf[b]
      /\ job = [id |-> 0, op |-> "update", state |-> "none"]
      /\ done = NoChecks /\ pc = Off
      /\ stray = FALSE /\ hitches = 0
  BY DEF UpdInit
<1>1. NoInstall \in Installs /\ NoInstall.state = "none" /\ ~NoInstall.settled
  BY DEF NoInstall, Installs, Builds
<1>2. \A h \in Hosts, k \in Dirs : install[h][k] = NoInstall
  BY <1>0
<1>3. install \in [Hosts -> [Dirs -> Installs]]
  BY <1>0, <1>1
<1>4. installed \in [Hosts -> Builds] /\ running \in [Hosts -> Bundles] /\ store \in [Hosts -> SUBSET Bundles]
  BY <1>0 DEF Builds
<1>5. HostsTyped
  BY <1>1, <1>2, <1>3, <1>4 DEF HostsTyped
<1>6. NoChecks \in Checks /\ Off \in Scripts
  BY UpdAssumption DEF NoChecks, Checks, Off, Scripts
<1>11. job \in UpdJobs /\ job.state = "none" /\ pc.at = "off"
  BY <1>0, UpdAssumption DEF UpdJobs, Modes, Off
<1>12. schema \in Nat /\ hitches \in 0..MaxHitches /\ answers \subseteq Hosts
  BY <1>0, UpdAssumption
<1>13. stray \in BOOLEAN
  BY <1>0
<1>7. UpdTypeOK
  BY <1>0, <1>5, <1>6, <1>11, <1>12, <1>13 DEF UpdTypeOK
<1>8. ~Alive /\ pc.at = "off" /\ done.plan = {} /\ ~done.stopped /\ done.asked = "no" /\ done.back = {}
  BY <1>0 DEF Alive, Off, NoChecks
<1>9. OneAtATime
  BY <1>1, <1>2, <1>8 DEF OneAtATime
<1>10. PlaceFits
  BY <1>8 DEF PlaceFits
<1> QED
  BY <1>7, <1>8, <1>9, <1>10 DEF UpdInv, UpdateInTurn, RollbackInTurn

LEMMA UpdStutter ==
  ASSUME UpdInv, UNCHANGED updVars
  PROVE  UpdInv'
<1>1. UNCHANGED <<running, installed, store, install, answers, schema, job, done, pc, stray, hitches>>
  BY DEF updVars
<1>2. UpdTypeOK'
  BY <1>1 DEF UpdInv, UpdTypeOK, HostsTyped
<1>3. Alive' = Alive /\ Mode' = Mode /\ \A m : Key(m)' = Key(m)
  BY <1>1 DEF Alive, Mode, Key
<1>4. OneAtATime'
  BY <1>1, <1>3 DEF UpdInv, OneAtATime, Asked
<1>5. PlaceFits'
  BY <1>1, <1>3 DEF UpdInv, PlaceFits, Asked, First, Key
<1>6. UpdateInTurn'
  BY <1>1, <1>3 DEF UpdInv, UpdateInTurn, Asked, First, Runs
<1>7. RollbackInTurn'
  BY <1>1, <1>3 DEF UpdInv, RollbackInTurn, Asked
<1> QED
  BY <1>2, <1>4, <1>5, <1>6, <1>7 DEF UpdInv

\* Every step keeps the invariant, part by part.
LEMMA UpdKept == UpdInv /\ [UpdNext]_updVars => UpdInv'
<1> SUFFICES ASSUME UpdInv, [UpdNext]_updVars PROVE UpdInv'
  OBVIOUS
<1>1. CASE UpdNext
  <2>1. UpdTypeOK' /\ PlaceFits'
    BY <1>1, UpdTypeStep, PlaceStep DEF UpdInv
  <2> QED
    BY <1>1, <2>1, OneStep, UpdateStep, RollbackStep DEF UpdInv
<1>2. CASE UNCHANGED updVars
  BY <1>2, UpdStutter
<1> QED
  BY <1>1, <1>2

\* For any hosts, bundles and number of jobs, the installs, the place of the
\* script and its checkpoints fit together: nothing is under way that the
\* job of the day did not ask for unless a wait was given up, whoever an
\* update is through with runs and records the bundle, and a host of a
\* rollback is on the bundle until it recorded that it left it.
THEOREM UpdatesInTurn == UpdSpec => []UpdInv
  BY UpdStart, UpdKept, PTL DEF UpdSpec

\* The installs that a step may begin: only the one the script asks for.
LEMMA BegunByAsking ==
  ASSUME UpdInv, UpdNext, NEW h \in Hosts, NEW k \in Dirs, install[h][k].state = "none", install'[h][k].state # "none"
  PROVE  /\ job.state = "running" /\ pc.at = "install" /\ h = pc.host /\ k = Key(Mode)
<1>0. HostsTyped /\ UpdTypeOK
  BY DEF UpdInv, UpdTypeOK
<1>1. CASE UNCHANGED <<running, installed, install>>
  BY <1>1
<1>2. ASSUME NEW H, NEW q, Settling(H, q) PROVE FALSE
  BY <1>2 DEF Settling, Alike
<1>3. CASE AskInstall
  BY <1>0, <1>2, <1>3, AskSteps DEF Beginning, hostVars
<1>4. CASE Await
  BY <1>0, <1>2, <1>4, AwaitSteps
<1>5. CASE Offer
  BY <1>0, <1>2, <1>5, OfferSteps
<1>6. CASE NextRollback
  BY <1>0, <1>2, <1>6, RollSteps DEF hostVars
<1>7. CASE \E g \in Hosts : Crash(g)
  BY <1>0, <1>7, RestartStep
<1>8. CASE \E g \in Hosts, q \in Dirs : Launch(g, q)
  BY <1>0, <1>8, LaunchStep
<1>9. CASE \E g \in Hosts, q \in Dirs : InstallFails(g, q) \/ Exits(g, q)
  BY <1>0, <1>9, MoveStep
<1>10. CASE \E g \in Hosts, q \in Dirs : Upgraded(g, q)
  BY <1>0, <1>10, UpgradedStep
<1> QED
  BY <1>1, <1>3, <1>4, <1>5, <1>6, <1>7, <1>8, <1>9, <1>10, QuietSteps DEF UpdNext

\* "Each host installs the bundle and must come back healthy before the next
\* starts", through every crash and resumption of the job, for any number of
\* hosts and jobs.
THEOREM OneHostAtATime == UpdSpec => NextAfterHealthy
<1> DEFINE A == \A h \in Hosts :
          LET k == <<job.id, "update">> IN
          k \in Dirs /\ install[h][k].state = "none" /\ install'[h][k].state # "none" =>
            stray \/ \A g \in Hosts \ {h} :
              /\ ~Underway(install[g][k])
              /\ (g \in done.plan /\ InTurn(h, g)) \/ Runs(g, done.sha)
<1>1. UpdInv /\ [UpdNext]_updVars => [A]_updVars
  <2> SUFFICES ASSUME UpdInv, UpdNext, NEW h \in Hosts, Key("update") \in Dirs, install[h][Key("update")].state = "none",
                      install'[h][Key("update")].state # "none", ~stray, NEW g \in Hosts \ {h}
               PROVE  ~Underway(install[g][Key("update")]) /\ ((g \in done.plan /\ InTurn(h, g)) \/ Runs(g, done.sha))
    BY DEF Key
  <2>1. job.state = "running" /\ pc.at = "install" /\ h = pc.host /\ Key("update") = Key(Mode)
    BY BegunByAsking
  <2>2. Mode = "update" /\ Alive
    BY <2>1 DEF Key, Alive
  <2>3. First(h, done.plan \ done.updated) /\ done.plan \in SUBSET Hosts
    BY <2>1, <2>2, UpdFields DEF UpdInv, PlaceFits
  <2>4. /\ done.updated \subseteq done.plan
        /\ HadTurn(g, install[g][Key("update")], running[g], installed[g], done.sha, done.plan, done.updated)
    BY <2>2, HadTurnIs DEF UpdInv
  <2>5. install[g][Key("update")].state # "none" => g \in done.updated
    BY <2>3, <2>4, FirstIsOne DEF HadTurn
  <2>6. g \in done.updated => install[g][Key("update")].settled /\ install[g][Key("update")].state = "exited"
    BY <2>4 DEF HadTurn, UpdInv, OneAtATime
  <2>7. ~Underway(install[g][Key("update")])
    BY <2>5, <2>6 DEF Underway
  <2>8. CASE g \notin done.plan
    BY <2>3, <2>4, <2>7, <2>8 DEF HadTurn, Runs, First
  <2>9. CASE g \in done.updated
    BY <2>4, <2>6, <2>7, <2>9 DEF HadTurn, Runs
  <2>10. CASE g \in done.plan /\ g \notin done.updated
    BY <2>3, <2>7, <2>10 DEF First
  <2> QED
    BY <2>7, <2>8, <2>9, <2>10
<1>2. UpdSpec => [][A]_updVars
  BY <1>1, UpdatesInTurn, PTL DEF UpdSpec
<1> QED
  BY <1>2 DEF NextAfterHealthy

\* A rollback says what it did, also when the job died while a host rolled
\* back, for any number of hosts and jobs.
THEOREM RollbackSaysWhatItDid == UpdSpec => RollbackIsHonest
<1> DEFINE A == \A h \in Hosts :
         /\ h \in done'.rolled \ done.rolled =>
              stray \/ (Runs(h, installed[h].current) /\ installed[h].previous = done.sha)
         /\ h \in done'.skipped \ done.skipped => installed[h].previous = NoBundle
<1>1. UpdInv /\ [UpdNext]_updVars => [A]_updVars
  <2> SUFFICES ASSUME UpdInv, UpdNext, NEW h \in Hosts
               PROVE  /\ h \in done'.rolled \ done.rolled =>
                           stray \/ (Runs(h, installed[h].current) /\ installed[h].previous = done.sha)
                      /\ h \in done'.skipped \ done.skipped => installed[h].previous = NoBundle
    OBVIOUS
  <2> DEFINE Same == done'.rolled \subseteq done.rolled /\ done'.skipped \subseteq done.skipped
  <2>0. UpdTypeOK /\ done \in Checks
    BY DEF UpdInv, UpdTypeOK
  <2>1. CASE Healthy
    <3>1. done'.skipped = done.skipped /\ done'.rolled = IF Mode = "update" THEN done.rolled ELSE done.rolled \cup {pc.host}
      BY <2>0, <2>1 DEF Healthy, HostDone, Checks
    <3>2. SUFFICES ASSUME h = pc.host, Mode # "update", ~stray
                   PROVE  Runs(h, installed[h].current) /\ installed[h].previous = done.sha
      BY <3>1
    <3>3. Mode = "rollback" /\ Alive /\ pc.at = "health" /\ job.state = "running"
      BY <2>0, <2>1, <3>2, UpdFields DEF Modes, Healthy, At, Alive
    <3>4. install[h][Key("rollback")].state = "exited" /\ install[h][Key("rollback")].settled
      BY <3>2, <3>3 DEF UpdInv, PlaceFits, Asked
    <3>5. Rolled(h, install[h][Key("rollback")], running[h], installed[h], done.sha, done.back, stray)
      BY <3>3, RolledIs DEF UpdInv
    <3> QED
      BY <3>2, <3>4, <3>5 DEF Rolled, Runs
  <2>2. CASE NextRollback
    <3>1. CASE UNCHANGED done
      BY <3>1
    <3>2. ASSUME NEW g \in done.back, g \in Hosts, RollHost(g), done' = [done EXCEPT !.skipped = @ \cup {g}],
                 install[g][Key("rollback")].state # "exited", InstalledAfter(g, Key("rollback")).current # done.sha
                   \/ InstalledAfter(g, Key("rollback")).previous = NoBundle
          PROVE  Same \/ (done'.rolled = done.rolled /\ done'.skipped = done.skipped \cup {g} /\ installed[g].previous = NoBundle)
      <4>1. Mode = "rollback" /\ Alive /\ Key("rollback") \in Dirs
        BY <2>0, <2>2, RollSteps, KeyType DEF UpdInv, PlaceFits, Alive, Modes
      <4>2. InstalledAfter(g, Key("rollback")) = installed[g]
        BY <3>2 DEF InstalledAfter, Settles
      <4>3. Rolled(g, install[g][Key("rollback")], running[g], installed[g], done.sha, done.back, stray)
        BY <3>2, <4>1, RolledIs DEF UpdInv
      <4>4. ~install[g][Key("rollback")].settled
        BY <3>2, <4>1 DEF UpdInv, OneAtATime
      <4>5. installed[g].current = done.sha
        BY <3>2, <4>3, <4>4 DEF Rolled
      <4>6. done'.rolled = done.rolled /\ done'.skipped = done.skipped \cup {g}
        BY <2>0, <3>2 DEF Checks
      <4> QED
        BY <3>2, <4>2, <4>5, <4>6
    <3>3. CASE \E g \in done.back : g \in Hosts /\ RollHost(g)
      <4>1. PICK g \in done.back : g \in Hosts /\ RollHost(g)
        BY <3>3
      <4>2. \/ UNCHANGED done
            \/ /\ done' = [done EXCEPT !.skipped = @ \cup {g}] /\ install[g][Key("rollback")].state # "exited"
               /\ \/ InstalledAfter(g, Key("rollback")).current # done.sha
                  \/ InstalledAfter(g, Key("rollback")).previous = NoBundle
        BY <4>1 DEF RollHost
      <4> QED
        BY <3>1, <3>2, <4>1, <4>2
    <3> QED
      BY <2>0, <2>2, <3>1, <3>3, RollSteps
  <2>3. CASE done' = done \/ done' = NoChecks
    BY <2>3 DEF NoChecks
  <2>4. CASE Await
    BY <2>0, <2>3, <2>4, AwaitSteps, HostFailedStep
  <2>5. CASE AskInstall
    BY <2>0, <2>3, <2>5, AskSteps, HostFailedStep
  <2>6. CASE Drain \/ GivesUp \/ Unhealthy
    BY <2>0, <2>3, <2>6, HostFailedStep DEF Drain, GivesUp, Unhealthy, At
  <2>7. CASE Offer
    <3>1. ASSUME NEW answer, done' = [done EXCEPT !.asked = answer, !.back = OnBundle(installed')] PROVE Same
      BY <2>0, <3>1 DEF Checks
    <3> QED
      BY <2>0, <2>3, <2>7, <3>1, OfferSteps
  <2>8. CASE (\E m \in BOOLEAN : Plan(m)) \/ \E b \in Bundles : ChooseBundle(b) \/ PlanRollback(b)
    <3>1. ASSUME NEW m, NEW hosts, done' = [done EXCEPT !.plan = hosts, !.migrate = m] PROVE Same
      BY <2>0, <3>1 DEF Checks
    <3>2. ASSUME NEW b, NEW hosts, done' = [done EXCEPT !.sha = b, !.back = hosts] PROVE Same
      BY <2>0, <3>2 DEF Checks
    <3>3. ASSUME NEW b, done' = [done EXCEPT !.sha = b] PROVE Same
      BY <2>0, <3>3 DEF Checks
    <3> QED
      BY <2>3, <2>8, <3>1, <3>2, <3>3 DEF Plan, ChooseBundle, PlanRollback
  <2>9. CASE \/ \E op \in Modes : StartJob(op)
             \/ Resume \/ OpenBundle \/ CheckFails \/ NextUpdate \/ OfferEnds \/ BeginRollback
             \/ \E b \in Bundles : Upload(b)
             \/ \E g \in Hosts : Lost(g) \/ Back(g) \/ Crash(g) \/ \E b \in Bundles : DeleteBundle(g, b)
             \/ \E g \in Hosts, k \in Dirs : Launch(g, k) \/ InstallFails(g, k) \/ Upgraded(g, k) \/ Exits(g, k)
    BY <2>3, <2>9 DEF StartJob, Resume, OpenBundle, CheckFails, NextUpdate, OfferEnds, BeginRollback, Upload, Lost, Back,
         Crash, DeleteBundle, Launch, InstallFails, Upgraded, Exits
  <2> QED
    BY <2>1, <2>2, <2>4, <2>5, <2>6, <2>7, <2>8, <2>9 DEF UpdNext
<1>2. UpdSpec => [][A]_updVars
  BY <1>1, UpdatesInTurn, PTL DEF UpdSpec
<1> QED
  BY <1>2 DEF RollbackIsHonest


-----------------------------------------------------------------------------
(* The parts side by side.                                                 *)

\* In a behaviour of one part the others stay where they are.
LEMMA OfOnePart ==
  ASSUME [OperationsNext]_operationsVars
  PROVE  /\ part' = part
         /\ part = "updates" => [UpdNext]_updVars
         /\ part = "replace" => [ReplaceNext]_replaceVars
         /\ part = "notify" => [NoteNext]_noteVars
         /\ part = "mesh" => [MeshNext]_meshVars
  BY Zenon DEF OperationsNext, operationsVars

\* For every value of the constants, updates, replaced disks, outboxes and
\* copies of records are sound at every state of their behaviours.
THEOREM OperationsSound == OperationsSpec => []OperationsInv
<1>1. OperationsInit => OperationsInv
  BY UpdStart, ReplaceStarts, InitInv, MeshInitInv DEF OperationsInit, OperationsInv
<1>2. OperationsInv /\ [OperationsNext]_operationsVars => OperationsInv'
  <2> SUFFICES ASSUME OperationsInv, [OperationsNext]_operationsVars PROVE OperationsInv'
    OBVIOUS
  <2>1. part' = part
    BY OfOnePart
  <2>2. part = "updates" => UpdInv'
    BY OfOnePart, UpdKept DEF OperationsInv
  <2>3. part = "replace" => ReplaceInv'
    BY OfOnePart, ReplaceKept DEF OperationsInv
  <2>4. part = "notify" => OutboxInv'
    BY OfOnePart, NextInv DEF OperationsInv
  <2>5. part = "mesh" => MeshInv'
    BY OfOnePart, MeshNextInv DEF OperationsInv
  <2> QED
    BY <2>1, <2>2, <2>3, <2>4, <2>5 DEF OperationsInv
<1> QED
  BY <1>1, <1>2, PTL DEF OperationsSpec
=============================================================================
