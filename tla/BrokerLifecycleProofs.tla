----------------------- MODULE BrokerLifecycleProofs ------------------------
(***************************************************************************)
(* Proofs about BrokerLifecycle, for every combination of arguments and    *)
(* every kind of backend: the one source of configuration an instance      *)
(* follows, the order in which it comes up, and what has ended when Start  *)
(* has waited for its group.                                               *)
(***************************************************************************)
EXTENDS BrokerLifecycle, TLAPS

(* The inductive invariant *)

Over == {"returned", "failed"}

BeforeInit == {"validate", "initialize", "new", "start", "status", "init"}

\* The followers Start has behind it when it is at a place.
Behind(at) ==
    CASE at \in {"register", "ingest", "running", "wait"} ->
                       {"bcw", "ocw", "bcp", "ocp", "km", "static"}
      [] at = "static" -> {"bcw", "ocw", "bcp", "ocp", "km"}
      [] at = "km"     -> {"bcw", "ocw", "bcp", "ocp"}
      [] at = "ocp"    -> {"bcw", "ocw", "bcp"}
      [] at = "bcp"    -> {"bcw", "ocw"}
      [] at = "ocw"    -> {"bcw"}
      [] OTHER         -> {}

\* The main goroutine is at its end when the process is.
Ended == main = "exited" <=> ~Alive

\* Past Validate, the arguments are accepted and the method is theirs.
Chosen == main \notin {"validate", "exited"} => ~Refused(args) /\ method = ConfigMethod(args)

\* The instance has the followers of its method, and Start those behind it.
Followed ==
    /\ main \in {"validate", "initialize", "new"} => created = {}
    /\ main \notin {"validate", "initialize", "new", "exited"} => created = Created(method, args)
    /\ main # "exited" => started = created \cap Behind(main)

\* The backend is made before its Start is launched and before anything that
\* calls it, and it is closed when its Start is over.
BackendUp ==
    /\ main \notin BeforeInit \cup {"exited"} => backend # "new"
    /\ started # {} \/ part["ingest"] # "off" => backend # "new"
    /\ main \in BeforeInit \cup {"backend"} => part["backend"] = "off"
    /\ main \notin BeforeInit \cup {"backend", "exited"} => part["backend"] # "off"
    /\ part["backend"] \in Over => backend = "closed"

\* The server starts with its handler, has requests only while it runs, and
\* reports its end once.
IngestUp ==
    /\ main \notin {"running", "wait", "exited"} => part["ingest"] = "off"
    /\ main \in {"ingest", "running", "wait"} \/ part["ingest"] # "off" => handler
    /\ request => part["ingest"] = "running"
    /\ ingest = "Closed" => part["ingest"] \in Over
    /\ ~lost

LInv ==
    /\ TypeOK /\ Ended /\ Chosen /\ Followed
    /\ BackendUp /\ IngestUp /\ AllPartsReturn

(* Lemmas about the operators of the model *)

LEMMA FollowerNames ==
    {Followers[i] : i \in 1..6} = {"bcw", "ocw", "bcp", "ocp", "km", "static"}
<1>1. \A i \in 1..6 : i = 1 \/ i = 2 \/ i = 3 \/ i = 4 \/ i = 5 \/ i = 6
  OBVIOUS
<1>2. /\ Followers[1] = "bcw" /\ Followers[2] = "ocw" /\ Followers[3] = "bcp"
      /\ Followers[4] = "ocp" /\ Followers[5] = "km" /\ Followers[6] = "static"
  BY DEF Followers
<1>3. 1 \in 1..6 /\ 2 \in 1..6 /\ 3 \in 1..6 /\ 4 \in 1..6 /\ 5 \in 1..6 /\ 6 \in 1..6
  OBVIOUS
<1>4. QED BY <1>1, <1>2, <1>3

\* Start goes through the followers in their order, and then to the ingest.
LEMMA FollowerOrder ==
    /\ AfterFollower("bcw") = "ocw" /\ AfterFollower("ocw") = "bcp"
    /\ AfterFollower("bcp") = "ocp" /\ AfterFollower("ocp") = "km"
    /\ AfterFollower("km") = "static" /\ AfterFollower("static") = "register"
    /\ Head(Followers) = "bcw"
<1>1. \A i \in 1..5 : i = 1 \/ i = 2 \/ i = 3 \/ i = 4 \/ i = 5
  OBVIOUS
<1>2. /\ Followers[1] = "bcw" /\ Followers[2] = "ocw" /\ Followers[3] = "bcp"
      /\ Followers[4] = "ocp" /\ Followers[5] = "km" /\ Followers[6] = "static"
  BY DEF Followers
<1>3. /\ (CHOOSE i \in 1..5 : Followers[i] = "bcw") = 1
      /\ (CHOOSE i \in 1..5 : Followers[i] = "ocw") = 2
      /\ (CHOOSE i \in 1..5 : Followers[i] = "bcp") = 3
      /\ (CHOOSE i \in 1..5 : Followers[i] = "ocp") = 4
      /\ (CHOOSE i \in 1..5 : Followers[i] = "km") = 5
  BY <1>1, <1>2
<1>4. Head(Followers) = "bcw"
  BY DEF Followers
<1>5. QED BY <1>2, <1>3, <1>4 DEF AfterFollower

\* Moving past a follower adds it to what is behind Start.
LEMMA BehindGrows ==
    ASSUME NEW f \in {"bcw", "ocw", "bcp", "ocp", "km", "static"}
    PROVE  /\ Behind(AfterFollower(f)) = Behind(f) \cup {f}
           /\ AfterFollower(f) \in {"ocw", "bcp", "ocp", "km", "static", "register"}
<1>1. CASE f = "bcw" BY <1>1, FollowerOrder DEF Behind
<1>2. CASE f = "ocw" BY <1>2, FollowerOrder DEF Behind
<1>3. CASE f = "bcp" BY <1>3, FollowerOrder DEF Behind
<1>4. CASE f = "ocp" BY <1>4, FollowerOrder DEF Behind
<1>5. CASE f = "km" BY <1>5, FollowerOrder DEF Behind
<1>6. CASE f = "static" BY <1>6, FollowerOrder DEF Behind
<1>7. QED BY <1>1, <1>2, <1>3, <1>4, <1>5, <1>6

\* What Validate accepts has one complete source of configuration, and the
\* instance is made to follow it.
LEMMA AcceptedSource ==
    ASSUME NEW a \in Args, ~Refused(a)
    PROVE  /\ ConfigMethod(a) \in {"watcher", "poller", "secret", "inline"}
           /\ Created(ConfigMethod(a), a) \subseteq {"bcw", "ocw", "bcp", "ocp", "km", "static"}
           /\ \E f \in {"bcw", "bcp", "km", "static"} :
                 /\ Created(ConfigMethod(a), a) \ {"ocw", "ocp"} = {f}
                 /\ Sources(a) = {SourceOf(f)}
<1> DEFINE complete(s) == CASE s = "secret" -> a.secretName /\ a.secretKey
                            [] s = "inline" -> a.inline
                            [] s = "file"   -> a.path = "other"
           given == {s \in {"secret", "inline", "file"} : complete(s)}
<1>1. /\ a.path \in {"", "default", "other"} /\ a.inline \in BOOLEAN
      /\ a.secretName \in BOOLEAN /\ a.secretKey \in BOOLEAN
      /\ a.obsPath \in BOOLEAN
  BY DEF Args
<1>2. /\ complete("secret") <=> a.secretName /\ a.secretKey
      /\ complete("inline") <=> a.inline
      /\ complete("file") <=> a.path = "other"
  OBVIOUS
<1>3. Sources(a) = IF given = {} /\ a.path = "default" THEN {"file"} ELSE given
  BY DEF Sources
<1> HIDE DEF complete
<1>4. Case(a) \in {"secret", "inline", "file"}
  BY DEF Refused, Case
<1>5. CASE Case(a) = "secret"
  <2>1. complete("secret") /\ ~complete("inline") /\ ~complete("file")
    BY <1>1, <1>2, <1>5 DEF Refused, SecretRefused
  <2>2. Sources(a) = {"secret"}
    BY <1>3, <2>1
  <2>3. ConfigMethod(a) = "secret" /\ Created("secret", a) = {"km"}
    BY <1>5 DEF ConfigMethod, Created
  <2>4. SourceOf("km") = "secret"
    BY DEF SourceOf
  <2>5. QED BY <2>2, <2>3, <2>4
<1>6. CASE Case(a) = "inline"
  <2>1. complete("inline") /\ ~complete("secret") /\ ~complete("file")
    BY <1>1, <1>2, <1>6 DEF Refused, Case
  <2>2. Sources(a) = {"inline"}
    BY <1>3, <2>1
  <2>3. ConfigMethod(a) = "inline" /\ Created("inline", a) = {"static"}
    BY <1>6 DEF ConfigMethod, Created
  <2>4. SourceOf("static") = "inline"
    BY DEF SourceOf
  <2>5. QED BY <2>2, <2>3, <2>4
<1>7. CASE Case(a) = "file"
  <2>1. /\ ~complete("inline") /\ ~complete("secret")
        /\ a.path = "default" \/ complete("file")
    BY <1>1, <1>2, <1>7 DEF Refused, FileRefused, Case
  <2>2. Sources(a) = {"file"}
    BY <1>2, <1>3, <2>1
  <2>3. CASE a.polling = "zero"
    <3>1. /\ ConfigMethod(a) = "watcher"
          /\ Created("watcher", a) = {"bcw"} \cup (IF a.obsPath THEN {"ocw"} ELSE {})
      BY <1>7, <2>3 DEF ConfigMethod, Created
    <3>2. SourceOf("bcw") = "file"
      BY DEF SourceOf
    <3>3. QED BY <2>2, <3>1, <3>2
  <2>4. CASE a.polling # "zero"
    <3>1. /\ ConfigMethod(a) = "poller"
          /\ Created("poller", a) = {"bcp"} \cup (IF a.obsPath THEN {"ocp"} ELSE {})
      BY <1>7, <2>4 DEF ConfigMethod, Created
    <3>2. SourceOf("bcp") = "file"
      BY DEF SourceOf
    <3>3. QED BY <2>2, <3>1, <3>2
  <2>5. QED BY <2>3, <2>4
<1>8. QED BY <1>4, <1>5, <1>6, <1>7

-----------------------------------------------------------------------------
(* The steps *)

\* The type invariant, the followers by their names.
LEMMA TypeNames ==
    TypeOK <=>
        /\ kind \in Backends /\ args \in Args
        /\ method \in {"unknown", "watcher", "poller", "secret", "inline"}
        /\ created \subseteq {"bcw", "ocw", "bcp", "ocp", "km", "static"}
        /\ started \subseteq created
        /\ main \in {"validate", "initialize", "new", "start", "status", "init", "backend",
                      "bcw", "ocw", "bcp", "ocp", "km", "static",
                      "register", "ingest", "running", "wait", "exited"}
        /\ status \in {"stopped", "starting", "running", "stopping"}
        /\ watch \in {"off", "waiting", "stopping", "ended"}
        /\ done \in BOOLEAN /\ handler \in BOOLEAN
        /\ request \in BOOLEAN /\ lost \in BOOLEAN
        /\ part \in [Parts -> {"off", "launched", "running", "returned", "failed"}]
        /\ backend \in {"new", "ready", "closed"}
        /\ ingest \in {"none", "Ready", "Running", "Closed"}
        /\ exit \in {"none", "error", "waited", "killed", "panic"}
<1>1. IsFollower(main) <=> main \in {"bcw", "ocw", "bcp", "ocp", "km", "static"}
  BY FollowerNames DEF IsFollower
<1>2. QED BY <1>1, FollowerNames DEF TypeOK

\* A step that ends the process, other than the return of the group.
LEMMA Quits ==
    ASSUME LInv, Alive, main' = "exited", exit' \in {"error", "killed", "panic"},
           method' \in {"unknown", "watcher", "poller", "secret", "inline"},
           status' \in {"stopped", "starting", "running", "stopping"}, done' \in BOOLEAN,
           UNCHANGED <<kind, args, created, started, watch, part, backend, handler, request,
                       ingest, lost>>
    PROVE  LInv'
<1> TypeOK /\ Ended /\ BackendUp /\ IngestUp
  BY DEF LInv
<1>1. TypeOK'
  BY TypeNames, FollowerNames DEF TypeOK
<1>2. Ended' /\ Chosen' /\ Followed' /\ AllPartsReturn'
  BY DEF Ended, Alive, Chosen, Followed, AllPartsReturn
<1>3. BackendUp'
  BY DEF BackendUp, BeforeInit
<1>4. IngestUp'
  BY DEF IngestUp
<1>5. QED BY <1>1, <1>2, <1>3, <1>4 DEF LInv

\* Steps of the goroutines of the status manager, of the controllers and of
\* the one that watches the context.
LEMMA Apart ==
    ASSUME LInv, Alive, status' \in {"stopped", "starting", "running", "stopping"},
           watch' \in {"off", "waiting", "stopping", "ended"}, done' \in BOOLEAN,
           part' \in [Parts -> {"off", "launched", "running", "returned", "failed"}],
           part'["backend"] = part["backend"], part'["ingest"] = part["ingest"],
           UNCHANGED <<config, main, started, backend, handler, request, ingest, lost, exit>>
    PROVE  LInv'
<1> TypeOK /\ Ended /\ Chosen /\ Followed /\ BackendUp /\ IngestUp
  BY DEF LInv
<1>1. TypeOK'
  BY TypeNames, FollowerNames DEF TypeOK, IsFollower, config
<1>2. Ended' /\ AllPartsReturn'
  BY DEF Ended, Alive, AllPartsReturn
<1>3. Chosen' /\ Followed'
  BY DEF Chosen, Followed, config
<1>4. BackendUp'
  BY DEF BackendUp
<1>5. IngestUp'
  BY DEF IngestUp
<1>6. QED BY <1>1, <1>2, <1>3, <1>4, <1>5 DEF LInv

(* The main goroutine *)

LEMMA ValidateInv == LInv /\ Validate => LInv'
<1> SUFFICES ASSUME LInv, Validate PROVE LInv'
  OBVIOUS
<1> USE DEF Validate, Alive, BeforeStart, config
<1> TypeOK /\ Ended /\ Chosen /\ Followed /\ BackendUp /\ IngestUp /\ AllPartsReturn
  BY DEF LInv
<1>0. CASE Refused(args)
  BY <1>0, Quits DEF Exit, TypeOK
<1> SUFFICES ASSUME ~Refused(args) PROVE LInv'
  BY <1>0
<1>1. TypeOK'
  BY TypeNames, FollowerNames, AcceptedSource DEF TypeOK, IsFollower, Parts
<1>2. Ended' /\ Chosen' /\ Followed'
  BY TypeNames DEF Ended, Chosen, Followed, Behind
<1>3. BackendUp'
  BY TypeNames DEF BackendUp, Followed, Behind, BeforeInit, Over, Parts
<1>4. IngestUp'
  BY TypeNames DEF IngestUp, Over, Parts
<1>5. AllPartsReturn'
  BY TypeNames DEF AllPartsReturn
<1>6. QED BY <1>1, <1>2, <1>3, <1>4, <1>5 DEF LInv

LEMMA InitializeInv == LInv /\ Initialize => LInv'
<1> SUFFICES ASSUME LInv, Initialize PROVE LInv'
  OBVIOUS
<1> USE DEF Initialize, Alive, BeforeStart, config
<1> TypeOK /\ Ended /\ Chosen /\ Followed /\ BackendUp /\ IngestUp /\ AllPartsReturn
  BY DEF LInv
<1>1. TypeOK'
  BY TypeNames, FollowerNames DEF TypeOK, IsFollower, Parts
<1>2. Ended' /\ Chosen' /\ Followed'
  BY TypeNames DEF Ended, Chosen, Followed, Behind
<1>3. BackendUp'
  BY TypeNames DEF BackendUp, Followed, Behind, BeforeInit, Over, Parts
<1>4. IngestUp'
  BY TypeNames DEF IngestUp, Over, Parts
<1>5. AllPartsReturn'
  BY TypeNames DEF AllPartsReturn
<1>6. QED BY <1>1, <1>2, <1>3, <1>4, <1>5 DEF LInv

LEMMA InitializeFailsInv == LInv /\ InitializeFails => LInv'
BY Quits DEF LInv, TypeOK, InitializeFails, BeforeStart, Exit

LEMMA NewInstanceInv == LInv /\ NewInstance => LInv'
<1> SUFFICES ASSUME LInv, NewInstance PROVE LInv'
  OBVIOUS
<1> USE DEF NewInstance, Alive, BeforeStart, config
<1> TypeOK /\ Ended /\ Chosen /\ Followed /\ BackendUp /\ IngestUp /\ AllPartsReturn
  BY DEF LInv
<1>0. created' \subseteq {"bcw", "ocw", "bcp", "ocp", "km", "static"} /\ started = {}
  BY TypeNames, AcceptedSource DEF Chosen, Followed
<1>1. TypeOK'
  BY <1>0, TypeNames, FollowerNames DEF TypeOK, IsFollower, Parts
<1>2. Ended' /\ Chosen' /\ Followed'
  BY TypeNames DEF Ended, Chosen, Followed, Behind
<1>3. BackendUp'
  BY TypeNames DEF BackendUp, Followed, Behind, BeforeInit, Over, Parts
<1>4. IngestUp'
  BY TypeNames DEF IngestUp, Over, Parts
<1>5. AllPartsReturn'
  BY TypeNames DEF AllPartsReturn
<1>6. QED BY <1>1, <1>2, <1>3, <1>4, <1>5 DEF LInv

LEMMA NewInstanceFailsInv == LInv /\ NewInstanceFails => LInv'
BY Quits DEF LInv, TypeOK, NewInstanceFails, BeforeStart, Exit

LEMMA StartInv == LInv /\ Start => LInv'
<1> SUFFICES ASSUME LInv, Start PROVE LInv'
  OBVIOUS
<1> USE DEF Start, Alive, config
<1> TypeOK /\ Ended /\ Chosen /\ Followed /\ BackendUp /\ IngestUp /\ AllPartsReturn
  BY DEF LInv
<1>1. TypeOK'
  BY TypeNames, FollowerNames DEF TypeOK, IsFollower, Parts
<1>2. Ended' /\ Chosen' /\ Followed'
  BY TypeNames DEF Ended, Chosen, Followed, Behind
<1>3. BackendUp'
  BY TypeNames DEF BackendUp, Followed, Behind, BeforeInit, Over, Parts
<1>4. IngestUp'
  BY TypeNames DEF IngestUp, Over, Parts
<1>5. AllPartsReturn'
  BY TypeNames DEF AllPartsReturn
<1>6. QED BY <1>1, <1>2, <1>3, <1>4, <1>5 DEF LInv

LEMMA StartStatusInv == LInv /\ StartStatus => LInv'
<1> SUFFICES ASSUME LInv, StartStatus PROVE LInv'
  OBVIOUS
<1> USE DEF StartStatus, Alive, Continue, config, Launch
<1> TypeOK /\ Ended /\ Chosen /\ Followed /\ BackendUp /\ IngestUp /\ AllPartsReturn
  BY DEF LInv
<1>1. TypeOK'
  BY TypeNames, FollowerNames DEF TypeOK, IsFollower, Parts
<1>2. Ended' /\ Chosen' /\ Followed'
  BY TypeNames DEF Ended, Chosen, Followed, Behind
<1>3. BackendUp'
  BY TypeNames DEF BackendUp, Followed, Behind, BeforeInit, Over, Parts
<1>4. IngestUp'
  BY TypeNames DEF IngestUp, Over, Parts
<1>5. AllPartsReturn'
  BY TypeNames DEF AllPartsReturn
<1>6. QED BY <1>1, <1>2, <1>3, <1>4, <1>5 DEF LInv

LEMMA BackendInitInv == LInv /\ BackendInit => LInv'
<1> SUFFICES ASSUME LInv, BackendInit PROVE LInv'
  OBVIOUS
<1> USE DEF BackendInit, Alive, Continue, config
<1> TypeOK /\ Ended /\ Chosen /\ Followed /\ BackendUp /\ IngestUp /\ AllPartsReturn
  BY DEF LInv
<1>0. CASE ReturnError
  BY <1>0, Quits DEF ReturnError, Exit, TypeOK
<1> SUFFICES ASSUME ~ReturnError PROVE LInv'
  BY <1>0
<1>1. TypeOK'
  BY TypeNames, FollowerNames DEF TypeOK, IsFollower, Parts
<1>2. Ended' /\ Chosen' /\ Followed'
  BY TypeNames DEF Ended, Chosen, Followed, Behind
<1>3. BackendUp'
  BY TypeNames DEF BackendUp, Followed, Behind, BeforeInit, Over, Parts
<1>4. IngestUp'
  BY TypeNames DEF IngestUp, Over, Parts
<1>5. AllPartsReturn'
  BY TypeNames DEF AllPartsReturn
<1>6. QED BY <1>1, <1>2, <1>3, <1>4, <1>5 DEF LInv

LEMMA StartBackendInv == LInv /\ StartBackend => LInv'
<1> SUFFICES ASSUME LInv, StartBackend PROVE LInv'
  OBVIOUS
<1> USE DEF StartBackend, Alive, Continue, config, Launch
<1> TypeOK /\ Ended /\ Chosen /\ Followed /\ BackendUp /\ IngestUp /\ AllPartsReturn
  BY DEF LInv
<1>1. TypeOK'
  BY TypeNames, FollowerNames, FollowerOrder DEF TypeOK, IsFollower, Parts
<1>2. Ended' /\ Chosen' /\ Followed'
  BY TypeNames, FollowerOrder DEF Ended, Chosen, Followed, Behind
<1>3. BackendUp'
  BY TypeNames, FollowerOrder DEF BackendUp, Followed, Behind, BeforeInit, Over, Parts
<1>4. IngestUp'
  BY TypeNames, FollowerOrder DEF IngestUp, Over, Parts
<1>5. AllPartsReturn'
  BY TypeNames DEF AllPartsReturn
<1>6. QED BY <1>1, <1>2, <1>3, <1>4, <1>5 DEF LInv

\* Start has a follower behind it.
LEMMA MovesOn ==
    ASSUME LInv, Alive, main \in {"bcw", "ocw", "bcp", "ocp", "km", "static"},
           Continue(AfterFollower(main)), UNCHANGED <<backend, handler>>,
           started' = started \cup ({main} \cap created),
           part' \in [Parts -> {"off", "launched", "running", "returned", "failed"}],
           part'["backend"] = part["backend"], part'["ingest"] = part["ingest"]
    PROVE  LInv'
<1> TypeOK /\ Ended /\ Chosen /\ Followed /\ BackendUp /\ IngestUp
  BY DEF LInv
<1>0. /\ main' \in {"ocw", "bcp", "ocp", "km", "static", "register"}
      /\ Behind(main') = Behind(main) \cup {main}
  BY BehindGrows DEF Continue
<1> USE DEF Continue, config
<1>1. TypeOK'
  BY <1>0, TypeNames, FollowerNames DEF TypeOK, IsFollower
<1>2. Ended' /\ AllPartsReturn'
  BY <1>0 DEF Ended, Alive, AllPartsReturn
<1>3. Chosen'
  BY <1>0 DEF Chosen
<1>4. Followed'
  BY <1>0 DEF Followed
<1>5. BackendUp'
  BY <1>0 DEF BackendUp, BeforeInit
<1>6. IngestUp'
  BY <1>0 DEF IngestUp
<1>7. QED BY <1>1, <1>2, <1>3, <1>4, <1>5, <1>6 DEF LInv

LEMMA SkipFollowerInv == LInv /\ SkipFollower => LInv'
<1> SUFFICES ASSUME LInv, SkipFollower PROVE LInv'
  OBVIOUS
<1>1. TypeOK /\ main \in {"bcw", "ocw", "bcp", "ocp", "km", "static"}
  BY FollowerNames DEF LInv, SkipFollower, IsFollower
<1>2. started' = started \cup ({main} \cap created)
  BY DEF SkipFollower, NotNil
<1>3. QED BY <1>1, <1>2, MovesOn DEF SkipFollower, TypeOK

LEMMA StartFollowerInv == LInv /\ StartFollower => LInv'
<1> SUFFICES ASSUME LInv, StartFollower PROVE LInv'
  OBVIOUS
<1>1. TypeOK /\ main \in {"bcw", "ocw", "bcp", "ocp", "km", "static"}
  BY TypeNames DEF LInv, StartFollower, NotNil
<1>2. CASE ReturnError
  BY <1>1, <1>2, Quits DEF StartFollower, ReturnError, Exit, config, TypeOK
<1>3. CASE ~ReturnError
  <2>1. started' = started \cup ({main} \cap created)
    BY <1>3 DEF StartFollower, NotNil
  <2>2. /\ part' \in [Parts -> {"off", "launched", "running", "returned", "failed"}]
        /\ part'["backend"] = part["backend"] /\ part'["ingest"] = part["ingest"]
    BY <1>1, <1>3 DEF StartFollower, Launch, TypeOK, Parts
  <2>3. QED BY <1>1, <1>3, <2>1, <2>2, MovesOn DEF StartFollower
<1>4. QED BY <1>2, <1>3

LEMMA FollowerPanicsInv == LInv /\ FollowerPanics => LInv'
BY Quits DEF LInv, TypeOK, FollowerPanics, Exit, config

LEMMA RegisterHandlerInv == LInv /\ RegisterHandler => LInv'
<1> SUFFICES ASSUME LInv, RegisterHandler PROVE LInv'
  OBVIOUS
<1> USE DEF RegisterHandler, Alive, Continue, config, Register
<1> TypeOK /\ Ended /\ Chosen /\ Followed /\ BackendUp /\ IngestUp /\ AllPartsReturn
  BY DEF LInv
<1>1. TypeOK'
  BY TypeNames, FollowerNames DEF TypeOK, IsFollower, Parts
<1>2. Ended' /\ Chosen' /\ Followed'
  BY TypeNames DEF Ended, Chosen, Followed, Behind
<1>3. BackendUp'
  BY TypeNames DEF BackendUp, Followed, Behind, BeforeInit, Over, Parts
<1>4. IngestUp'
  BY TypeNames DEF IngestUp, Over, Parts
<1>5. AllPartsReturn'
  BY TypeNames DEF AllPartsReturn
<1>6. QED BY <1>1, <1>2, <1>3, <1>4, <1>5 DEF LInv

LEMMA StartIngestInv == LInv /\ StartIngest => LInv'
<1> SUFFICES ASSUME LInv, StartIngest PROVE LInv'
  OBVIOUS
<1> USE DEF StartIngest, Alive, Continue, config, Launch
<1> TypeOK /\ Ended /\ Chosen /\ Followed /\ BackendUp /\ IngestUp /\ AllPartsReturn
  BY DEF LInv
<1>1. TypeOK'
  BY TypeNames, FollowerNames DEF TypeOK, IsFollower, Parts
<1>2. Ended' /\ Chosen' /\ Followed'
  BY TypeNames DEF Ended, Chosen, Followed, Behind
<1>3. BackendUp'
  BY TypeNames DEF BackendUp, Followed, Behind, BeforeInit, Over, Parts
<1>4. IngestUp'
  BY TypeNames DEF IngestUp, Over, Parts
<1>5. AllPartsReturn'
  BY TypeNames DEF AllPartsReturn
<1>6. QED BY <1>1, <1>2, <1>3, <1>4, <1>5 DEF LInv

LEMMA SetRunningInv == LInv /\ SetRunning => LInv'
<1> SUFFICES ASSUME LInv, SetRunning PROVE LInv'
  OBVIOUS
<1> USE DEF SetRunning, Alive, Continue, config
<1> TypeOK /\ Ended /\ Chosen /\ Followed /\ BackendUp /\ IngestUp /\ AllPartsReturn
  BY DEF LInv
<1>1. TypeOK'
  BY TypeNames, FollowerNames DEF TypeOK, IsFollower, Parts
<1>2. Ended' /\ Chosen' /\ Followed'
  BY TypeNames DEF Ended, Chosen, Followed, Behind
<1>3. BackendUp'
  BY TypeNames DEF BackendUp, Followed, Behind, BeforeInit, Over, Parts
<1>4. IngestUp'
  BY TypeNames DEF IngestUp, Over, Parts
<1>5. AllPartsReturn'
  BY TypeNames DEF AllPartsReturn
<1>6. QED BY <1>1, <1>2, <1>3, <1>4, <1>5 DEF LInv

LEMMA WaitInv == LInv /\ Wait => LInv'
<1> SUFFICES ASSUME LInv, Wait PROVE LInv'
  OBVIOUS
<1> USE DEF Wait, Alive, Exit, config
<1> TypeOK /\ Ended /\ Chosen /\ Followed /\ BackendUp /\ IngestUp /\ AllPartsReturn
  BY DEF LInv
<1>1. TypeOK'
  BY TypeNames, FollowerNames DEF TypeOK, IsFollower, Parts
<1>2. Ended' /\ Chosen' /\ Followed'
  BY TypeNames DEF Ended, Chosen, Followed, Behind
<1>3. BackendUp'
  BY TypeNames DEF BackendUp, Followed, Behind, BeforeInit, Over, Parts
<1>4. IngestUp'
  BY TypeNames DEF IngestUp, Over, Parts
<1>5. AllPartsReturn'
  BY TypeNames DEF AllPartsReturn, BackendUp, IngestUp, BeforeInit, Over, Parts, Group
<1>6. QED BY <1>1, <1>2, <1>3, <1>4, <1>5 DEF LInv

(* The watching goroutine, the group, requests and signals *)

LEMMA ReadStatusInv == LInv /\ ReadStatus => LInv'
<1> SUFFICES ASSUME LInv, ReadStatus PROVE LInv'
  OBVIOUS
<1>1. TypeOK
  BY DEF LInv
<1>2. part' \in [Parts -> {"off", "launched", "running", "returned", "failed"}]
  BY <1>1 DEF TypeOK, Parts, ReadStatus, WatchMoves
<1>3. QED BY <1>1, <1>2, Apart DEF TypeOK, Parts, ReadStatus, WatchMoves

LEMMA SetStoppingInv == LInv /\ SetStopping => LInv'
<1> SUFFICES ASSUME LInv, SetStopping PROVE LInv'
  OBVIOUS
<1>1. TypeOK
  BY DEF LInv
<1>2. part' \in [Parts -> {"off", "launched", "running", "returned", "failed"}]
  BY <1>1 DEF TypeOK, Parts, SetStopping, WatchMoves
<1>3. QED BY <1>1, <1>2, Apart DEF TypeOK, Parts, SetStopping, WatchMoves

LEMMA StatusRunsInv == LInv /\ StatusRuns => LInv'
<1> SUFFICES ASSUME LInv, StatusRuns PROVE LInv'
  OBVIOUS
<1>1. TypeOK
  BY DEF LInv
<1>2. part' \in [Parts -> {"off", "launched", "running", "returned", "failed"}]
  BY <1>1 DEF TypeOK, Parts, StatusRuns, PartMoves, To
<1>3. QED BY <1>1, <1>2, Apart DEF TypeOK, Parts, StatusRuns, PartMoves, To

LEMMA StatusPanicsInv == LInv /\ StatusPanics => LInv'
BY Quits DEF LInv, TypeOK, StatusPanics, Exit, config

LEMMA StatusReturnsInv == LInv /\ StatusReturns => LInv'
<1> SUFFICES ASSUME LInv, StatusReturns PROVE LInv'
  OBVIOUS
<1>1. TypeOK
  BY DEF LInv
<1>2. part' \in [Parts -> {"off", "launched", "running", "returned", "failed"}]
  BY <1>1 DEF TypeOK, Parts, StatusReturns, PartMoves, To
<1>3. QED BY <1>1, <1>2, Apart DEF TypeOK, Parts, StatusReturns, PartMoves, To

LEMMA BackendRunsInv == LInv /\ BackendRuns => LInv'
<1> SUFFICES ASSUME LInv, BackendRuns PROVE LInv'
  OBVIOUS
<1> USE DEF BackendRuns, Alive, PartMoves, To, config
<1> TypeOK /\ Ended /\ Chosen /\ Followed /\ BackendUp /\ IngestUp /\ AllPartsReturn
  BY DEF LInv
<1>1. TypeOK'
  BY TypeNames, FollowerNames DEF TypeOK, IsFollower, Parts
<1>2. Ended' /\ Chosen' /\ Followed'
  BY TypeNames DEF Ended, Chosen, Followed, Behind
<1>3. BackendUp'
  BY TypeNames DEF BackendUp, Followed, Behind, BeforeInit, Over, Parts
<1>4. IngestUp'
  BY TypeNames DEF IngestUp, Over, Parts
<1>5. AllPartsReturn'
  BY TypeNames DEF AllPartsReturn
<1>6. QED BY <1>1, <1>2, <1>3, <1>4, <1>5 DEF LInv

LEMMA BackendReturnsInv == LInv /\ BackendReturns => LInv'
<1> SUFFICES ASSUME LInv, BackendReturns PROVE LInv'
  OBVIOUS
<1> USE DEF BackendReturns, Alive, PartMoves, To, config, CancelOnError
<1> TypeOK /\ Ended /\ Chosen /\ Followed /\ BackendUp /\ IngestUp /\ AllPartsReturn
  BY DEF LInv
<1>1. TypeOK'
  BY TypeNames, FollowerNames DEF TypeOK, IsFollower, Parts
<1>2. Ended' /\ Chosen' /\ Followed'
  BY TypeNames DEF Ended, Chosen, Followed, Behind
<1>3. BackendUp'
  BY TypeNames DEF BackendUp, Followed, Behind, BeforeInit, Over, Parts
<1>4. IngestUp'
  BY TypeNames DEF IngestUp, Over, Parts
<1>5. AllPartsReturn'
  BY TypeNames DEF AllPartsReturn
<1>6. QED BY <1>1, <1>2, <1>3, <1>4, <1>5 DEF LInv

LEMMA CallbackPanicsInv == LInv /\ CallbackPanics => LInv'
BY Quits DEF LInv, TypeOK, CallbackPanics, Exit, config

LEMMA KmReturnsInv == LInv /\ KmReturns => LInv'
<1> SUFFICES ASSUME LInv, KmReturns PROVE LInv'
  OBVIOUS
<1>1. TypeOK
  BY DEF LInv
<1>2. part' \in [Parts -> {"off", "launched", "running", "returned", "failed"}]
  BY <1>1 DEF TypeOK, Parts, KmReturns, PartMoves, To, CancelOnError
<1>3. QED BY <1>1, <1>2, Apart DEF TypeOK, Parts, KmReturns, PartMoves, To, CancelOnError

LEMMA IngestRunsInv == LInv /\ IngestRuns => LInv'
<1> SUFFICES ASSUME LInv, IngestRuns PROVE LInv'
  OBVIOUS
<1> USE DEF IngestRuns, Alive, PartMoves, To, config
<1> TypeOK /\ Ended /\ Chosen /\ Followed /\ BackendUp /\ IngestUp /\ AllPartsReturn
  BY DEF LInv
<1>1. TypeOK'
  BY TypeNames, FollowerNames DEF TypeOK, IsFollower, Parts
<1>2. Ended' /\ Chosen' /\ Followed'
  BY TypeNames DEF Ended, Chosen, Followed, Behind
<1>3. BackendUp'
  BY TypeNames DEF BackendUp, Followed, Behind, BeforeInit, Over, Parts
<1>4. IngestUp'
  BY TypeNames DEF IngestUp, Over, Parts
<1>5. AllPartsReturn'
  BY TypeNames DEF AllPartsReturn
<1>6. QED BY <1>1, <1>2, <1>3, <1>4, <1>5 DEF LInv

LEMMA IngestFailsInv == LInv /\ IngestFails => LInv'
<1> SUFFICES ASSUME LInv, IngestFails PROVE LInv'
  OBVIOUS
<1> USE DEF IngestFails, Alive, PartMoves, To, config, CancelOnError
<1> TypeOK /\ Ended /\ Chosen /\ Followed /\ BackendUp /\ IngestUp /\ AllPartsReturn
  BY DEF LInv
<1>1. TypeOK'
  BY TypeNames, FollowerNames DEF TypeOK, IsFollower, Parts
<1>2. Ended' /\ Chosen' /\ Followed'
  BY TypeNames DEF Ended, Chosen, Followed, Behind
<1>3. BackendUp'
  BY TypeNames DEF BackendUp, Followed, Behind, BeforeInit, Over, Parts
<1>4. IngestUp'
  BY TypeNames DEF IngestUp, Over, Parts
<1>5. AllPartsReturn'
  BY TypeNames DEF AllPartsReturn
<1>6. QED BY <1>1, <1>2, <1>3, <1>4, <1>5 DEF LInv

LEMMA IngestReturnsInv == LInv /\ IngestReturns => LInv'
<1> SUFFICES ASSUME LInv, IngestReturns PROVE LInv'
  OBVIOUS
<1> USE DEF IngestReturns, Alive, PartMoves, To, config, CancelOnError, RequestsDone
<1> TypeOK /\ Ended /\ Chosen /\ Followed /\ BackendUp /\ IngestUp /\ AllPartsReturn
  BY DEF LInv
<1>1. TypeOK'
  BY TypeNames, FollowerNames DEF TypeOK, IsFollower, Parts
<1>2. Ended' /\ Chosen' /\ Followed'
  BY TypeNames DEF Ended, Chosen, Followed, Behind
<1>3. BackendUp'
  BY TypeNames DEF BackendUp, Followed, Behind, BeforeInit, Over, Parts
<1>4. IngestUp'
  BY TypeNames DEF IngestUp, Over, Parts
<1>5. AllPartsReturn'
  BY TypeNames DEF AllPartsReturn
<1>6. QED BY <1>1, <1>2, <1>3, <1>4, <1>5 DEF LInv

LEMMA ReceiveInv == LInv /\ Receive => LInv'
<1> SUFFICES ASSUME LInv, Receive PROVE LInv'
  OBVIOUS
<1> USE DEF Receive, Alive, PartMoves, To, config
<1> TypeOK /\ Ended /\ Chosen /\ Followed /\ BackendUp /\ IngestUp /\ AllPartsReturn
  BY DEF LInv
<1>1. TypeOK'
  BY TypeNames, FollowerNames DEF TypeOK, IsFollower, Parts
<1>2. Ended' /\ Chosen' /\ Followed'
  BY TypeNames DEF Ended, Chosen, Followed, Behind
<1>3. BackendUp'
  BY TypeNames DEF BackendUp, Followed, Behind, BeforeInit, Over, Parts
<1>4. IngestUp'
  BY TypeNames DEF IngestUp, Over, Parts
<1>5. AllPartsReturn'
  BY TypeNames DEF AllPartsReturn
<1>6. QED BY <1>1, <1>2, <1>3, <1>4, <1>5 DEF LInv

LEMMA AnswerInv == LInv /\ Answer => LInv'
<1> SUFFICES ASSUME LInv, Answer PROVE LInv'
  OBVIOUS
<1> USE DEF Answer, Alive, config
<1> TypeOK /\ Ended /\ Chosen /\ Followed /\ BackendUp /\ IngestUp /\ AllPartsReturn
  BY DEF LInv
<1>1. TypeOK'
  BY TypeNames, FollowerNames DEF TypeOK, IsFollower, Parts, IngestUp
<1>2. Ended' /\ Chosen' /\ Followed'
  BY TypeNames DEF Ended, Chosen, Followed, Behind
<1>3. BackendUp'
  BY TypeNames DEF BackendUp, Followed, Behind, BeforeInit, Over, Parts
<1>4. IngestUp'
  BY TypeNames DEF IngestUp, Over, Parts
<1>5. AllPartsReturn'
  BY TypeNames DEF AllPartsReturn
<1>6. QED BY <1>1, <1>2, <1>3, <1>4, <1>5 DEF LInv

LEMMA SignalInv == LInv /\ Signal => LInv'
<1> SUFFICES ASSUME LInv, Signal PROVE LInv'
  OBVIOUS
<1>1. TypeOK
  BY DEF LInv
<1>2. CASE watch = "off"
  BY <1>1, <1>2, Quits DEF Signal, Exit, config, TypeOK
<1>3. CASE watch # "off"
  BY <1>1, <1>3, Apart DEF Signal, TypeOK
<1>4. QED BY <1>2, <1>3

-----------------------------------------------------------------------------
(* The invariant *)

LEMMA InitLInv == Init => LInv
<1> SUFFICES ASSUME Init PROVE LInv
  OBVIOUS
<1>1. TypeOK
  BY TypeNames DEF Init, Parts
<1>2. Ended /\ Chosen /\ Followed
  BY DEF Init, Ended, Alive, Chosen, Followed, Behind
<1>3. BackendUp /\ IngestUp /\ AllPartsReturn
  BY DEF Init, BackendUp, IngestUp, AllPartsReturn, BeforeInit, Parts, Over
<1>4. QED BY <1>1, <1>2, <1>3 DEF LInv

LEMMA StutterLInv == LInv /\ UNCHANGED vars => LInv'
BY DEF LInv, TypeOK, Ended, Alive, Chosen, Followed, BackendUp, IngestUp, AllPartsReturn,
       IsFollower, vars, config

LEMMA MainStepInv == LInv /\ MainStep => LInv'
BY ValidateInv, InitializeInv, InitializeFailsInv, NewInstanceInv, NewInstanceFailsInv,
   StartInv, StartStatusInv, BackendInitInv, StartBackendInv, SkipFollowerInv,
   StartFollowerInv, FollowerPanicsInv, RegisterHandlerInv, StartIngestInv,
   SetRunningInv, WaitInv DEF MainStep

LEMMA PartStepInv ==
    ASSUME NEW p \in Parts, LInv, PartStep(p)
    PROVE  LInv'
<1>1. CASE p = "status"
  BY <1>1, StatusRunsInv, StatusPanicsInv, StatusReturnsInv DEF PartStep
<1>2. CASE p = "backend"
  BY <1>2, BackendRunsInv, BackendReturnsInv DEF PartStep
<1>3. CASE p = "km"
  BY <1>3, KmReturnsInv DEF PartStep
<1>4. CASE p = "ingest"
  BY <1>4, IngestRunsInv, IngestFailsInv, IngestReturnsInv DEF PartStep
<1>5. QED BY <1>1, <1>2, <1>3, <1>4 DEF Parts

LEMMA NextLInv == LInv /\ [Next]_vars => LInv'
BY MainStepInv, PartStepInv, SignalInv, ReadStatusInv, SetStoppingInv, CallbackPanicsInv,
   ReceiveInv, AnswerInv, StutterLInv DEF Next

LEMMA Invariance == Spec => []LInv
<1>1. Init => LInv
  BY InitLInv
<1>2. LInv /\ [Next]_vars => LInv'
  BY NextLInv
<1>3. QED BY <1>1, <1>2, PTL DEF Spec

(* The theorems *)

\* Type correctness, with the arguments and the kind of backend as constants.
THEOREM LifecycleTypeCorrect == Spec => []TypeOK
<1>1. LInv => TypeOK
  BY DEF LInv
<1>2. QED BY <1>1, Invariance, PTL

\* An instance that runs follows the one complete source of configuration its
\* arguments have: Validate refuses what has none or several, and the
\* followers Start starts are those NewInstance made for the method.
THEOREM OneSource == Spec => []FollowsItsSource
<1>1. LInv => FollowsItsSource
  <2> SUFFICES ASSUME LInv, main = "wait" PROVE FollowsItsSource
    BY DEF FollowsItsSource
  <2>1. args \in Args /\ ~Refused(args) /\ method = ConfigMethod(args)
    BY DEF LInv, TypeOK, Chosen
  <2>2. /\ Created(method, args) \subseteq {"bcw", "ocw", "bcp", "ocp", "km", "static"}
        /\ \E f \in {"bcw", "bcp", "km", "static"} :
              /\ Created(method, args) \ {"ocw", "ocp"} = {f}
              /\ Sources(args) = {SourceOf(f)}
    BY <2>1, AcceptedSource
  <2>3. started = Created(method, args)
    BY <2>2 DEF LInv, Followed, Behind
  <2>4. QED BY <2>2, <2>3 DEF FollowsItsSource
<1>2. QED BY <1>1, Invariance, PTL

\* The backend is made before a follower can subscribe or ingest can accept
\* requests, and no request ever meets a server without its handler.
THEOREM ServesWhenReady == Spec => []ReadyBeforeServing
<1>1. LInv => ReadyBeforeServing
  BY DEF LInv, BackendUp, IngestUp, ReadyBeforeServing
<1>2. QED BY <1>1, Invariance, PTL

\* When Start has waited for its group the requests are answered, the backend
\* is closed and every goroutine of the group has returned.
THEOREM WaitsForAll == Spec => []AllPartsReturn
<1>1. LInv => AllPartsReturn
  BY DEF LInv
<1>2. QED BY <1>1, Invariance, PTL

\* Only the server's start, its end and an answer set its status; the first
\* two happen once, and no request is left to answer after the end.
THEOREM LastStatus == Spec => ClosedIsFinal
<1>1. LInv /\ [Next]_vars => (ingest = "Closed" => ingest' = "Closed")
  <2> SUFFICES ASSUME LInv, [Next]_vars, ingest = "Closed" PROVE ingest' = "Closed"
    OBVIOUS
  <2>1. ~request /\ part["ingest"] \in {"returned", "failed"}
    BY DEF LInv, IngestUp, Over
  <2>2. CASE MainStep
    BY <2>2 DEF MainStep, Validate, Initialize, InitializeFails, NewInstance,
       NewInstanceFails, BeforeStart, Start, StartStatus, BackendInit, StartBackend,
       SkipFollower, StartFollower, FollowerPanics, RegisterHandler, StartIngest,
       SetRunning, Wait, Continue, ReturnError
  <2>3. CASE Signal \/ ReadStatus \/ SetStopping \/ CallbackPanics \/ Receive
    BY <2>3 DEF Signal, ReadStatus, SetStopping, WatchMoves, CallbackPanics, Receive
  <2>4. CASE \E p \in Parts : PartStep(p)
    <3>1. IngestReturns \/ UNCHANGED ingest
      BY <2>1, <2>4 DEF PartStep, Parts, StatusRuns, StatusPanics, StatusReturns, BackendRuns,
         BackendReturns, KmReturns, IngestRuns, IngestFails
    <3>2. QED BY <3>1 DEF IngestReturns
  <2>5. CASE Answer
    BY <2>1, <2>5 DEF Answer
  <2>6. CASE UNCHANGED vars
    BY <2>6 DEF vars
  <2>7. QED BY <2>2, <2>3, <2>4, <2>5, <2>6 DEF Next
<1>2. QED BY <1>1, Invariance, PTL DEF Spec, ClosedIsFinal
=============================================================================
