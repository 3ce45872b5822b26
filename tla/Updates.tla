------------------------------ MODULE Updates ------------------------------
(***************************************************************************)
(* Updating and rolling back the cluster: the jobs cluster.update and      *)
(* cluster.rollback (bmacd/src/updates/job.rs), the installer of each host *)
(* (updates/install.rs, mesh/updates.rs) and its store of bundles          *)
(* (updates/mod.rs).                                                       *)
(*                                                                         *)
(* A bundle is named by its version, a number; its SHA-256 stands for the  *)
(* same.  The job runs on host Me, asks one host after another to install  *)
(* and waits for it; the package manager runs in a unit of its own, so it  *)
(* outlives bmacd, and restarts it.  What the job has done is in its       *)
(* checkpoints, and a script that died starts again from them.  HA         *)
(* maintenance is one step that may fail.                                  *)
(***************************************************************************)
EXTENDS Integers

CONSTANTS
    Hosts, Me,      \* host slots, and the host the jobs run on
    Bundles,        \* versions, in order
    SchemaOf,       \* bundle -> the record schema it writes
    ReadsFrom,      \* bundle -> the oldest record schema it reads
    MaxJobs,        \* bound: jobs started
    MaxHitches      \* bound: failures, timeouts, hosts lost, scripts killed

ASSUME UpdAssumption ==
    /\ Hosts \subseteq Nat /\ Me \in Hosts /\ Bundles \subseteq Nat \ {0} /\ MaxJobs \in Nat /\ MaxHitches \in Nat
    /\ \A b \in Bundles : SchemaOf[b] \in Nat

NoBundle == 0
Modes == {"update", "rollback"}
JobIds == 1..MaxJobs
Dirs == JobIds \X Modes

VARIABLES
    running,    \* host -> the version its bmacd reports
    installed,  \* host -> installed.json: [current, previous]
    store,      \* host -> the bundles staged on it
    install,    \* host -> <<job, mode>> -> the directory of that install
    answers,    \* the hosts that can be reached
    schema,     \* the record schema in release.json
    job,        \* the newest job: [id, op, state]
    done,       \* its checkpoints
    pc,         \* where its script is: [at, host, version], the version the host should come to run
    stray,      \* history: an install went on that no job was waiting for
    hitches

updVars == <<running, installed, store, install, answers, schema, job, done, pc, stray, hitches>>
hostVars == <<running, installed, store, install>>

NoInstall == [state |-> "none", settled |-> FALSE, sha |-> NoBundle,
              after |-> [current |-> NoBundle, previous |-> NoBundle]]
NoChecks == [sha |-> NoBundle, plan |-> {}, migrate |-> FALSE, updated |-> {}, stopped |-> FALSE,
             asked |-> "no", back |-> {}, rolled |-> {}, skipped |-> {}]
Off == [at |-> "off", host |-> Me, version |-> NoBundle]
At(p) == job.state = "running" /\ pc.at = p
Moves(p) == pc' = [pc EXCEPT !.at = p]
Hitch == hitches < MaxHitches /\ hitches' = hitches + 1

\* An install the package manager may still finish.
Underway(i) == i.state \in {"fetching", "installing", "upgraded"}

-----------------------------------------------------------------------------
\* The installer of a host.

\* Installer::status: the first reader of a success records what is now
\* installed, and prunes; an old bundle that is neither goes.
Settles(h, k) == install[h][k].state = "exited" /\ ~install[h][k].settled
InstalledAfter(h, k) == IF Settles(h, k) THEN install[h][k].after ELSE installed[h]
MayDrop(S, kept) == {T \in SUBSET S : S \cap {kept.current, kept.previous} \subseteq T}
Status(H, k) ==
    /\ installed' = [h \in Hosts |-> IF h \in H THEN InstalledAfter(h, k) ELSE installed[h]]
    /\ install' = [h \in Hosts |->
            IF h \in H /\ Settles(h, k) THEN [install[h] EXCEPT ![k] = [@ EXCEPT !.settled = TRUE]] ELSE install[h]]
    /\ store' \in [Hosts -> SUBSET Bundles]
    /\ \A h \in Hosts : IF h \in H /\ Settles(h, k)
                          THEN store'[h] \in MayDrop(store[h], install[h][k].after)
                          ELSE store'[h] = store[h]
    /\ UNCHANGED running

\* rollback_target: the bundle before the one to leave.
RollbackTarget(h, from) ==
    IF installed[h].current = from THEN installed[h].previous ELSE NoBundle

\* needs
Needs(h, k) == IF k[2] = "update" THEN install[h][k].sha ELSE RollbackTarget(h, install[h][k].sha)

\* begin: a repeated request gets the install it already started; a
\* rollback needs something to go back to.
MayBegin(h, k, sha) ==
    install[h][k].state # "none" \/ k[2] = "update" \/ RollbackTarget(h, sha) # NoBundle
BeginInstall(h, k, sha) ==
    IF install[h][k].state = "none"
      THEN /\ install' = [install EXCEPT ![h][k] = [NoInstall EXCEPT !.state = "fetching", !.sha = sha]]
           /\ UNCHANGED <<running, installed, store>>
      ELSE Status({h}, k)

\* What launch decides is installed afterwards.
After(h, k) ==
    LET to == Needs(h, k) IN
    [current |-> to,
     previous |-> IF k[2] = "update" /\ installed[h].current = to
                    THEN installed[h].previous ELSE installed[h].current]

\* fetch_and_launch: the bundle comes from the host that asked.
Launch(h, k) ==
    /\ install[h][k].state = "fetching"
    /\ Needs(h, k) # NoBundle
    /\ Needs(h, k) \in store[h] \/ (Needs(h, k) \in store[Me] /\ {h, Me} \subseteq answers)
    /\ store' = [store EXCEPT ![h] = @ \cup {Needs(h, k)}]
    /\ install' = [install EXCEPT ![h][k] = [@ EXCEPT !.state = "installing", !.after = After(h, k)]]
    /\ UNCHANGED <<running, installed, answers, schema, job, done, pc, stray, hitches>>

\* Its error, or the package manager's.
InstallFails(h, k) ==
    /\ install[h][k].state \in {"fetching", "installing"}
    /\ Hitch
    /\ install' = [install EXCEPT ![h][k] = [@ EXCEPT !.state = "failed"]]
    /\ UNCHANGED <<running, installed, store, answers, schema, job, done, pc, stray>>

\* The script of the job dies with the bmacd that runs it, and so does a
\* task that fetches a bundle.
Orphaned(i) == IF i.state = "fetching" THEN [i EXCEPT !.state = "orphaned"] ELSE i
Restarts(h) ==
    IF h = Me /\ job.state = "running"
      THEN job' = [job EXCEPT !.state = "interrupted"] /\ pc' = Off
      ELSE UNCHANGED <<job, pc>>

\* The package manager replaces bmacd and restarts it, then leaves its
\* exit status.
Upgraded(h, k) ==
    /\ install[h][k].state = "installing"
    /\ install' = [install EXCEPT ![h] = [q \in Dirs |->
                      IF q = k THEN [@[q] EXCEPT !.state = "upgraded"] ELSE Orphaned(@[q])]]
    /\ running' = [running EXCEPT ![h] = install[h][k].after.current]
    /\ Restarts(h)
    /\ UNCHANGED <<installed, store, answers, schema, done, stray, hitches>>

Exits(h, k) ==
    /\ install[h][k].state = "upgraded"
    /\ install' = [install EXCEPT ![h][k] = [@ EXCEPT !.state = "exited"]]
    /\ UNCHANGED <<running, installed, store, answers, schema, job, done, pc, stray, hitches>>

\* DeleteBundle, from Settings.
DeleteBundle(h, b) ==
    /\ b \in store[h] /\ b \notin {installed[h].current, installed[h].previous}
    /\ Hitch
    /\ store' = [store EXCEPT ![h] = @ \ {b}]
    /\ UNCHANGED <<running, installed, install, answers, schema, job, done, pc, stray>>

\* An administrator uploads a bundle to the host the jobs run on.
Upload(b) ==
    /\ b \notin store[Me] /\ job.state \notin {"running", "interrupted"}
    /\ store' = [store EXCEPT ![Me] = @ \cup {b}]
    /\ UNCHANGED <<running, installed, install, answers, schema, job, done, pc, stray, hitches>>

\* A host cannot be reached for a while; its installs go on.
Lost(h) ==
    /\ h \in answers /\ h # Me /\ Hitch
    /\ answers' = answers \ {h}
    /\ UNCHANGED <<running, installed, store, install, schema, job, done, pc, stray>>

Back(h) ==
    /\ h \notin answers
    /\ answers' = answers \cup {h}
    /\ UNCHANGED <<running, installed, store, install, schema, job, done, pc, stray, hitches>>

\* bmacd restarts for a reason of its own.
Crash(h) ==
    /\ Hitch
    /\ install' = [install EXCEPT ![h] = [q \in Dirs |-> Orphaned(@[q])]]
    /\ Restarts(h)
    /\ UNCHANGED <<running, installed, store, answers, schema, done, stray>>

-----------------------------------------------------------------------------
\* The jobs.

\* order: the other hosts by slot, then this one.
InTurn(g, h) == g # Me /\ (h = Me \/ g < h)
\* The hosts are taken as they come, not in the order of the plan.
First_anyOrder(h, hosts) == h \in hosts
\* The host whose turn it is.
First(h, hosts) == h \in hosts /\ \A g \in hosts \ {h} : InTurn(h, g)
Key(mode) == <<job.id, mode>>
JobEnds(state) == job' = [job EXCEPT !.state = state] /\ pc' = Off
Fail == JobEnds("failed")
AllAnswer == answers = Hosts

StartJob(op) ==
    /\ job.state \notin {"running", "interrupted"} /\ job.id < MaxJobs
    /\ job' = [id |-> job.id + 1, op |-> op, state |-> "running"]
    /\ done' = NoChecks
    /\ pc' = [Off EXCEPT !.at = "begin"]
    /\ stray' = (stray \/ \E h \in Hosts, k \in Dirs : Underway(install[h][k]))
    /\ UNCHANGED <<running, installed, store, install, answers, schema, hitches>>

\* The runner starts the script again, after the restart the job expected
\* or when the operator resumes it; or the operator gives it up.
Resume ==
    /\ job.state = "interrupted"
    /\ \/ job' = [job EXCEPT !.state = "running"] /\ pc' = [Off EXCEPT !.at = "begin"]
       \/ Fail
    /\ UNCHANGED <<running, installed, store, install, answers, schema, done, stray, hitches>>

\* choose_bundle
ChooseBundle(b) ==
    /\ At("begin") /\ job.op = "update" /\ done.sha = NoBundle
    /\ b \in store[Me]
    /\ done' = [done EXCEPT !.sha = b]
    /\ UNCHANGED <<running, installed, store, install, answers, schema, job, pc, stray, hitches>>

\* update, to its plan: the bundle is opened again, and a stopped update
\* only offers a rollback.
OpenBundle ==
    /\ At("begin") /\ job.op = "update" /\ done.sha # NoBundle
    /\ \/ done.sha \notin store[Me] /\ Fail
       \/ /\ done.sha \in store[Me]
          /\ Moves(IF done.stopped THEN "offer" ELSE IF done.plan # {} THEN "loop" ELSE "plan")
          /\ UNCHANGED job
    /\ UNCHANGED <<running, installed, store, install, answers, schema, done, stray, hitches>>

\* schema_refusal, and the refusal of a downgrade.
Unfit(b) == (\E h \in Hosts : b < running[h]) \/ schema > SchemaOf[b] \/ ReadsFrom[b] > schema
Runs(h, b) == running[h] = b /\ installed[h].current = b
Raised == schema' = IF SchemaOf[done.sha] > schema THEN SchemaOf[done.sha] ELSE schema

CheckFails ==
    /\ At("plan")
    /\ ~AllAnswer \/ Unfit(done.sha)
    /\ Fail
    /\ UNCHANGED <<running, installed, store, install, answers, schema, done, stray, hitches>>

Plan(migrate) ==
    /\ At("plan") /\ AllAnswer /\ ~Unfit(done.sha)
    /\ LET hosts == {h \in Hosts : ~Runs(h, done.sha)} IN
       IF hosts = {}
         THEN Raised /\ JobEnds("succeeded") /\ UNCHANGED done
         ELSE /\ done' = [done EXCEPT !.plan = hosts, !.migrate = migrate]
              /\ Moves("loop")
              /\ UNCHANGED <<schema, job>>
    /\ UNCHANGED <<running, installed, store, install, answers, stray, hitches>>

\* The loop of update, and the record schema once every host is through.
NextUpdate ==
    /\ At("loop")
    /\ LET left == done.plan \ done.updated IN
       \/ left = {} /\ Raised /\ JobEnds("succeeded")
       \/ /\ \E h \in Hosts :
                /\ First(h, left)
                /\ pc' = [at |-> IF done.migrate THEN "drain" ELSE "install", host |-> h, version |-> done.sha]
          /\ UNCHANGED <<schema, job>>
    /\ UNCHANGED <<running, installed, store, install, answers, done, stray, hitches>>

\* What an update does when its host failed: the first failure stops it.
Stopped == done' = [done EXCEPT !.stopped = TRUE] /\ Moves("offer") /\ UNCHANGED job

\* What a failed host leaves behind: a package manager may still be at work.
Mode == IF done.stopped \/ job.op = "rollback" THEN "rollback" ELSE "update"
HostFailed ==
    /\ stray' = (stray \/ Underway(install[pc.host][Key(Mode)]))
    /\ \/ Mode = "update" /\ Stopped
       \/ Mode = "rollback" /\ Fail /\ UNCHANGED done

Drain ==
    /\ At("drain")
    /\ \/ Moves("install") /\ UNCHANGED <<job, done, stray, hitches>>
       \/ Hitch /\ HostFailed
    /\ UNCHANGED <<running, installed, store, install, answers, schema>>

\* one_host, to the answer of the host: serve_install.
AskInstall ==
    /\ At("install")
    /\ \/ /\ pc.host \in answers /\ MayBegin(pc.host, Key(Mode), done.sha)
          /\ BeginInstall(pc.host, Key(Mode), done.sha)
          /\ Moves("await")
          /\ UNCHANGED <<job, done, stray>>
       \/ /\ pc.host \notin answers \/ ~MayBegin(pc.host, Key(Mode), done.sha)
          /\ HostFailed
          /\ UNCHANGED hostVars
    /\ UNCHANGED <<answers, schema, hitches>>

\* await_install
Await ==
    /\ At("await") /\ pc.host \in answers
    /\ Status({pc.host}, Key(Mode))
    /\ LET i == install[pc.host][Key(Mode)] IN
       \/ i.state = "exited" /\ Moves("health") /\ UNCHANGED <<job, done, stray>>
       \/ i.state = "failed" /\ HostFailed
    /\ UNCHANGED <<answers, schema, hitches>>

GivesUp ==
    /\ At("await") /\ Hitch
    /\ HostFailed
    /\ UNCHANGED <<running, installed, store, install, answers, schema>>

\* await_health, then the checkpoint of the host.
HostDone ==
    /\ done' = IF Mode = "update" THEN [done EXCEPT !.updated = @ \cup {pc.host}]
                                  ELSE [done EXCEPT !.rolled = @ \cup {pc.host}]
    /\ Moves(IF Mode = "update" THEN "loop" ELSE "roll")

Healthy ==
    /\ At("health") /\ AllAnswer
    /\ running[pc.host] = pc.version
    /\ HostDone
    /\ UNCHANGED <<running, installed, store, install, answers, schema, job, stray, hitches>>

Unhealthy ==
    /\ At("health") /\ Hitch
    /\ HostFailed
    /\ UNCHANGED <<running, installed, store, install, answers, schema>>

\* offer_rollback: every host is asked how a rollback of this job goes,
\* and those that are recorded to run the bundle are offered.
OnBundle(installs) == {h \in Hosts : installs[h].current = done.sha}

Offer ==
    /\ At("offer") /\ done.asked = "no" /\ AllAnswer
    /\ Status(Hosts, Key("rollback"))
    /\ IF OnBundle(installed') = {}
         THEN Fail /\ UNCHANGED done
         ELSE \E answer \in {"roll", "leave"} :
                /\ done' = [done EXCEPT !.asked = answer, !.back = OnBundle(installed')]
                /\ UNCHANGED <<job, pc>>
    /\ UNCHANGED <<answers, schema, stray, hitches>>

OfferEnds ==
    /\ At("offer")
    /\ \/ done.asked = "no" /\ ~AllAnswer /\ Fail
       \/ done.asked = "leave" /\ Fail
       \/ done.asked = "roll" /\ Moves("roll") /\ UNCHANGED job
    /\ UNCHANGED <<running, installed, store, install, answers, schema, done, stray, hitches>>

\* rollback, to its plan.
PlanRollback(b) ==
    /\ At("begin") /\ job.op = "rollback" /\ done.back = {} /\ AllAnswer
    /\ LET hosts == {h \in Hosts : installed[h].current = b /\ installed[h].previous # NoBundle} IN
       /\ hosts # {}
       /\ done' = [done EXCEPT !.sha = b, !.back = hosts]
    /\ UNCHANGED <<running, installed, store, install, answers, schema, job, pc, stray, hitches>>

BeginRollback ==
    /\ At("begin") /\ job.op = "rollback"
    /\ \/ done.back # {} /\ Moves("roll") /\ UNCHANGED job
       \/ /\ done.back = {}
          /\ ~AllAnswer \/ \A h \in Hosts : installed[h].previous = NoBundle
          /\ Fail
    /\ UNCHANGED <<running, installed, store, install, answers, schema, done, stray, hitches>>

\* A resumed rollback leaves a host it already asked.
RollHost_askedBefore(h) ==
    LET k == Key("rollback") IN
    IF install[h][k].state = "none"
      THEN pc' = [at |-> "install", host |-> h, version |-> installed[h].previous] /\ UNCHANGED done
      ELSE done' = [done EXCEPT !.skipped = @ \cup {h}] /\ UNCHANGED pc

\* roll_back: the next host is asked what it runs.  One that left the
\* bundle by this job's rollback while the job was away is only checked;
\* any other that left it is skipped.
RollHost(h) ==
    LET k == Key("rollback")
        runsBundle == InstalledAfter(h, k).current = done.sha
        previous == InstalledAfter(h, k).previous IN
    CASE runsBundle /\ previous # NoBundle -> 
           pc' = [at |-> "install", host |-> h, version |-> previous] /\ UNCHANGED done
      [] ~(runsBundle /\ previous # NoBundle) /\ install[h][k].state = "exited"
           -> pc' = [at |-> "health", host |-> h, version |-> running[h]] /\ UNCHANGED done
      [] OTHER -> done' = [done EXCEPT !.skipped = @ \cup {h}] /\ UNCHANGED pc

NextRollback ==
    /\ At("roll")
    /\ LET left == done.back \ (done.rolled \cup done.skipped) IN
       \/ left = {} /\ JobEnds(IF job.op = "rollback" THEN "succeeded" ELSE "failed") /\ UNCHANGED <<done, hostVars>>
       \/ \E h \in Hosts :
            /\ First(h, left)
            /\ \/ h \notin answers /\ Fail /\ UNCHANGED <<done, hostVars>>
               \/ h \in answers /\ Status({h}, Key("rollback")) /\ RollHost(h) /\ UNCHANGED job
    /\ UNCHANGED <<answers, schema, stray, hitches>>

-----------------------------------------------------------------------------
\* Every host runs the build it was installed with; one that adopt_seed
\* finds the bundle of keeps it, another has no copy of its build.
UpdInit ==
    \E b \in Bundles, seeded \in SUBSET Hosts :
      /\ running = [h \in Hosts |-> b]
      /\ installed = [h \in Hosts |-> [current |-> IF h \in seeded THEN b ELSE NoBundle, previous |-> NoBundle]]
      /\ store = [h \in Hosts |-> IF h \in seeded THEN {b} ELSE {}]
      /\ install = [h \in Hosts |-> [k \in Dirs |-> NoInstall]]
      /\ answers = Hosts
      /\ schema = SchemaOf[b]
      /\ job = [id |-> 0, op |-> "update", state |-> "none"]
      /\ done = NoChecks /\ pc = Off
      /\ stray = FALSE /\ hitches = 0

UpdNext ==
    \/ \E op \in Modes : StartJob(op)
    \/ Resume \/ OpenBundle \/ CheckFails \/ NextUpdate \/ Drain \/ AskInstall \/ Await \/ GivesUp
    \/ Healthy \/ Unhealthy \/ Offer \/ OfferEnds \/ BeginRollback \/ NextRollback
    \/ \E m \in BOOLEAN : Plan(m)
    \/ \E b \in Bundles : ChooseBundle(b) \/ PlanRollback(b) \/ Upload(b)
    \/ \E h \in Hosts :
         \/ Lost(h) \/ Back(h) \/ Crash(h)
         \/ \E b \in Bundles : DeleteBundle(h, b)
         \/ \E k \in Dirs : Launch(h, k) \/ InstallFails(h, k) \/ Upgraded(h, k) \/ Exits(h, k)

UpdSpec == UpdInit /\ [][UpdNext]_updVars

-----------------------------------------------------------------------------
Builds == [current : Bundles \cup {NoBundle}, previous : Bundles \cup {NoBundle}]
Installs ==
    [state : {"none", "fetching", "orphaned", "installing", "upgraded", "exited", "failed"},
     settled : BOOLEAN, sha : Bundles \cup {NoBundle}, after : Builds]
UpdJobs == [id : 0..MaxJobs, op : Modes, state : {"none", "running", "interrupted", "failed", "succeeded"}]
Checks ==
    [sha : Bundles \cup {NoBundle}, plan : SUBSET Hosts, migrate : BOOLEAN, updated : SUBSET Hosts,
     stopped : BOOLEAN, asked : {"no", "roll", "leave"}, back : SUBSET Hosts,
     rolled : SUBSET Hosts, skipped : SUBSET Hosts]
Scripts ==
    [at : {"off", "begin", "plan", "loop", "drain", "install", "await", "health", "offer", "roll"},
     host : Hosts, version : Bundles \cup {NoBundle}]
HostsTyped ==
    /\ running \in [Hosts -> Bundles] /\ installed \in [Hosts -> Builds] /\ store \in [Hosts -> SUBSET Bundles]
    /\ install \in [Hosts -> [Dirs -> Installs]]
    /\ \A h \in Hosts, k \in Dirs :
         install[h][k].state \in {"installing", "upgraded", "exited"} => install[h][k].after.current # NoBundle

\* Every variable has its type, and the script has a place exactly while the
\* record says that the job runs.
UpdTypeOK ==
    /\ HostsTyped
    /\ answers \subseteq Hosts /\ schema \in Nat /\ stray \in BOOLEAN /\ hitches \in 0..MaxHitches
    /\ job \in UpdJobs /\ done \in Checks /\ pc \in Scripts
    /\ pc.at # "off" <=> job.state = "running"
    /\ job.state # "none" => job.id # 0

Alive == job.state \in {"running", "interrupted"}
Asked(h, mode) == install[h][Key(mode)]

\* No install is ahead of its job, only what a host has recorded is settled,
\* and of a job that is alive only the present mode has been asked for, when
\* nothing was left behind.
OneAtATime ==
    /\ \A h \in Hosts, k \in Dirs :
         /\ k[1] > job.id => install[h][k].state = "none"
         /\ install[h][k].settled => install[h][k].state = "exited"
         /\ Alive /\ ~stray /\ Underway(install[h][k]) => k = Key(Mode)
    /\ Alive /\ Mode = "update" => \A h \in Hosts : Asked(h, "rollback").state = "none"

\* The script is where its checkpoints say, and these follow each other.
PlaceFits ==
    /\ done.plan # {} \/ done.stopped => done.sha # NoBundle
    /\ Mode = "update" => done.asked = "no"
    /\ job.op = "update" /\ done.asked = "no" => done.back = {}
    /\ pc.at \in {"plan", "loop", "drain"} => Mode = "update"
    /\ pc.at = "plan" => done.plan = {}
    /\ Mode = "update" /\ pc.at \notin {"off", "begin"} => done.sha # NoBundle
    /\ pc.at = "offer" => done.stopped /\ job.op = "update"
    /\ pc.at = "roll" => Mode = "rollback"
    /\ Mode = "update" /\ pc.at \in {"drain", "install", "await", "health"} =>
         First(pc.host, done.plan \ done.updated) /\ pc.version = done.sha
    /\ Mode = "rollback" /\ pc.at \in {"install", "await", "health"} => pc.host \in done.back
    /\ pc.at = "health" => Asked(pc.host, Mode).state = "exited" /\ Asked(pc.host, Mode).settled

\* An update that nothing was left behind of: what it asked for is the next
\* host's install and those of the hosts it is through with, and whoever is
\* not ahead of it runs the bundle.
UpdateInTurn ==
    Alive /\ Mode = "update" /\ ~stray =>
      /\ done.updated \subseteq done.plan
      /\ \A h \in Hosts :
           LET i == Asked(h, "update") IN
           /\ i.state # "none" => i.sha = done.sha /\ (h \in done.updated \/ First(h, done.plan \ done.updated))
           /\ i.state \in {"installing", "upgraded", "exited"} => i.after.current = done.sha
           /\ i.state \in {"upgraded", "exited"} => running[h] = done.sha
           /\ i.settled => installed[h].current = done.sha
           /\ h \in done.updated => i.settled
           /\ done.plan # {} /\ h \notin done.plan => Runs(h, done.sha)

\* A rollback: a host of its list is on the bundle until it has recorded
\* that it left it for the one before.
RollbackInTurn ==
    Alive /\ Mode = "rollback" =>
      \A h \in Hosts :
        LET i == Asked(h, "rollback") IN
        /\ i.state # "none" => i.sha = done.sha /\ h \in done.back
        /\ i.state \in {"installing", "upgraded", "exited"} => i.after.previous = done.sha
        /\ ~stray /\ i.state \in {"upgraded", "exited"} => running[h] = i.after.current
        /\ i.settled => installed[h] = i.after
        /\ h \in done.back /\ ~i.settled => installed[h].current = done.sha

UpdInv == UpdTypeOK /\ OneAtATime /\ PlaceFits /\ UpdateInTurn /\ RollbackInTurn

\* "Each host installs the bundle and must come back healthy before the next
\* starts" (job.rs:586), through every restart of the job: a host is asked
\* to install only when every other host that does not come after it in the
\* plan runs the bundle and has recorded it, and none is still installing.
\* Installs that an earlier wait was given up on are beyond the job's
\* knowledge.
NextAfterHealthy ==
    [][\A h \in Hosts :
          LET k == <<job.id, "update">> IN
          k \in Dirs /\ install[h][k].state = "none" /\ install'[h][k].state # "none" =>
            stray \/ \A g \in Hosts \ {h} :
              /\ ~Underway(install[g][k])
              /\ (g \in done.plan /\ InTurn(h, g)) \/ Runs(g, done.sha)]_updVars

\* roll_back counts a host as rolled back only when it left the bundle for
\* the one before it and runs that, and leaves a host alone only when it
\* keeps nothing to go back to, also when the job died during the host's
\* rollback.
RollbackIsHonest ==
    [][\A h \in Hosts :
         /\ h \in done'.rolled \ done.rolled =>
              stray \/ (Runs(h, installed[h].current) /\ installed[h].previous = done.sha)
         /\ h \in done'.skipped \ done.skipped => installed[h].previous = NoBundle]_updVars

=============================================================================
