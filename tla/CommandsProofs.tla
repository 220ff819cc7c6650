---------------------------- MODULE CommandsProofs ----------------------------
(***************************************************************************)
(* The helper commands, for every set of jobs and calls and any number of  *)
(* retries, calls and changes of files.                                    *)
(***************************************************************************)
EXTENDS Commands, TLAPS

\* What the variables hold.
Archives  == [files : [Files -> Nat], time : Nat, whole : BOOLEAN]
Calls     == HelperCalls \cup {[name |-> "none"]}
Ats       == {"idle", "enumerate", "check", "zip", "rename", "put", "send", "get", "compare",
              "copy", "extract", "stream", "post", "download", "unzip"}
ProcState == [at : Ats, call : Calls, calls : Nat, files : SUBSET Files, tries : Nat,
              temp : Archives, body : Archives, got : Archives, exit : {"none", "ok", "failed"}]

HelperTypes ==
  /\ now \in Nat /\ tree \in [Jobs -> [Files -> Nat]] /\ artifacts \in [Jobs -> Archives]
  /\ cache \in Archives /\ remote \in Archives /\ proc \in [Jobs -> ProcState]

\* Which command is at which place, and that one that runs has no exit status yet.
Running(p) ==
  /\ p.at = "enumerate" => p.call.name \in {"cache-archiver", "artifacts-uploader"}
  /\ p.at \in {"check", "zip", "put", "send"} => p.call.name = "cache-archiver"
  /\ p.at \in {"get", "compare", "copy"} => p.call.name = "cache-extractor" /\ p.call.url
  /\ p.at = "rename" => p.call.name = "cache-archiver" \/ (p.call.name = "cache-extractor" /\ p.call.url)
  /\ p.at = "extract" => p.call.name = "cache-extractor"
  /\ p.at \in {"stream", "post"} => p.call.name = "artifacts-uploader"
  /\ p.at \in {"download", "unzip"} =>
       p.call.name \notin {"cache-archiver", "artifacts-uploader", "cache-extractor"}
  /\ p.at # "idle" => p.exit = "none"

\* The archive a command carries, or is about to read under the cache's name, is
\* there: it has a time.
Carries(p, cached) ==
  /\ p.at \in {"compare", "copy"} => p.body.time > 0
  /\ p.at = "rename" /\ p.call.name = "cache-extractor" => p.temp.time > 0
  /\ p.at \in {"put", "send"} => cached
  /\ p.at = "extract" => (p.call.url => cached)

\* And it is whole, unless the disk was full.
CarriesWhole(p, full) ==
  ~full => /\ p.at = "rename" => p.temp.whole
           /\ p.at \in {"send", "compare", "copy"} => p.body.whole

\* An uploader's files are still there, for the script waits for the command.
Uploads(p, t) ==
  p.at \in {"stream", "post"} =>
    /\ \A f \in p.files : t[f] > 0
    /\ p.at = "post" => {f \in Files : p.body.files[f] > 0} = p.files

Honest(p, a) ==
  p.at = "idle" /\ p.exit = "ok" =>
    /\ p.call.name = "artifacts-uploader" /\ p.files # {} => {f \in Files : a.files[f] > 0} = p.files
    /\ p.call.name = "artifacts-downloader" => p.got.whole
    /\ p.call.name = "cache-extractor" => (p.call.url => p.got.whole)

JobOK(p, t, a, cached, full) ==
  Running(p) /\ Carries(p, cached) /\ CarriesWhole(p, full) /\ Uploads(p, t) /\ Honest(p, a)

\* The cache's file and object.
Shared ==
  /\ cache = Nothing \/ cache.time > 0
  /\ remote = Nothing \/ remote.time > 0
  /\ CacheWhole

\* The inductive invariant.
HelperInv ==
  /\ HelperTypes /\ Shared
  /\ \A j \in Jobs : JobOK(proc[j], tree[j], artifacts[j], cache # Nothing, diskFull)

-----------------------------------------------------------------------------
\* The archive that is not there.
LEMMA NothingIs ==
  /\ Nothing \in Archives /\ Nothing.time = 0 /\ Nothing.whole = FALSE /\ Absent \in [Files -> Nat]
  BY Zenon DEF Nothing, Absent, Archives

\* A job without a command.
LEMMA IdleIs ==
  /\ Idle \in ProcState /\ Idle.at = "idle" /\ Idle.exit = "none"
  BY NothingIs, Zenon DEF Idle, ProcState, Ats, Calls

\* A job's files are a source and an object file.
LEMMA TreeIs == ASSUME NEW s \in Nat, NEW o \in Nat PROVE [src |-> s, obj |-> o] \in [Files -> Nat]
  BY DEF Files

\* A step of job j leaves the others as they are.
LEMMA OneJobMoves ==
  ASSUME HelperInv, NEW j \in Jobs, NEW r \in ProcState, Going(j, r), HelperTypes', Shared',
         \A k \in Jobs \ {j} : tree'[k] = tree[k] /\ artifacts'[k] = artifacts[k],
         cache # Nothing => cache' # Nothing, diskFull => diskFull',
         JobOK(r, tree'[j], artifacts'[j], (cache # Nothing)', diskFull')
  PROVE  HelperInv'
<1> SUFFICES ASSUME NEW k \in Jobs, k # j
             PROVE  JobOK(proc[k], tree[k], artifacts[k], cache # Nothing, diskFull)'
  BY Zenon DEF HelperInv, HelperTypes, Going
<1>1. proc'[k] = proc[k] /\ tree'[k] = tree[k] /\ artifacts'[k] = artifacts[k]
  BY Zenon DEF HelperInv, HelperTypes, Going
<1>2. JobOK(proc[k], tree[k], artifacts[k], cache # Nothing, diskFull)
  BY Zenon DEF HelperInv
<1> QED
  BY <1>1, <1>2, Zenon DEF JobOK, Carries, CarriesWhole

\* What else a step of job j may do.
Rest(j) ==
  /\ now' \in Nat /\ tree' \in [Jobs -> [Files -> Nat]] /\ artifacts' \in [Jobs -> Archives]
  /\ cache' \in Archives /\ remote' \in Archives /\ Shared'
  /\ \A k \in Jobs \ {j} : tree'[k] = tree[k] /\ artifacts'[k] = artifacts[k]
  /\ cache # Nothing => cache' # Nothing
  /\ diskFull => diskFull'

\* A step that moves one job on and does no more than that keeps the invariant.
LEMMA RestStep ==
  ASSUME HelperInv, NEW j \in Jobs, NEW r \in ProcState, Going(j, r), Rest(j),
         JobOK(r, tree'[j], artifacts'[j], (cache # Nothing)', diskFull')
  PROVE  HelperInv'
<1>1. HelperTypes'
  BY Zenon DEF HelperInv, HelperTypes, Going, Rest
<1> QED
  BY <1>1, OneJobMoves, Zenon DEF Rest

\* A step that touches no file and no archive does no more than that.
LEMMA RestSame == ASSUME HelperInv, NEW j \in Jobs, UNCHANGED outside PROVE Rest(j)
<1>1. Shared'
  BY Zenon DEF HelperInv, Shared, CacheWhole, outside
<1> QED
  BY <1>1, Zenon DEF HelperInv, HelperTypes, Rest, outside

\* What the invariant says of one job.
LEMMA ProcTyped ==
  ASSUME HelperInv, NEW j \in Jobs
  PROVE  /\ proc[j] \in ProcState /\ proc[j].calls \in Nat /\ proc[j].tries \in Nat
         /\ proc[j].temp \in Archives /\ proc[j].body \in Archives
         /\ tree[j] \in [Files -> Nat] /\ artifacts[j] \in Archives
         /\ JobOK(proc[j], tree[j], artifacts[j], cache # Nothing, diskFull)
  BY Zenon DEF HelperInv, HelperTypes, ProcState

\* A command that fails, or is killed, claims nothing.
LEMMA FailStep == ASSUME HelperInv, NEW j \in Jobs, Rest(j), Fail(j) PROVE HelperInv'
<1> DEFINE r == [Idle EXCEPT !.calls = proc[j].calls, !.exit = "failed"]
<1>1. r \in ProcState /\ r.at = "idle" /\ r.exit = "failed"
  BY IdleIs, ProcTyped, Zenon DEF ProcState
<1>2. Going(j, r)
  BY Zenon DEF Fail
<1> HIDE DEF r
<1>3. JobOK(r, tree'[j], artifacts'[j], (cache # Nothing)', diskFull')
  BY <1>1, Zenon DEF JobOK, Running, Carries, CarriesWhole, Uploads, Honest
<1> QED
  BY <1>1, <1>2, <1>3, RestStep, Zenon

\* One that succeeds has to keep its promise.
LEMMA SucceedStep ==
  ASSUME HelperInv, NEW j \in Jobs, Rest(j), Succeed(j),
         Honest([at |-> "idle", exit |-> "ok", call |-> proc[j].call, files |-> proc[j].files, got |-> proc[j].got],
                artifacts'[j])
  PROVE  HelperInv'
<1> DEFINE r == Succeeded(j)
<1>1. /\ r \in ProcState /\ r.at = "idle" /\ r.exit = "ok" /\ r.call = proc[j].call
      /\ r.files = proc[j].files /\ r.got = proc[j].got
  BY NothingIs, ProcTyped, Zenon DEF Succeeded, ProcState, Ats
<1>2. Going(j, r)
  BY Zenon DEF Succeed
<1> HIDE DEF r
<1>3. JobOK(r, tree'[j], artifacts'[j], (cache # Nothing)', diskFull')
  BY <1>1, Zenon DEF JobOK, Running, Carries, CarriesWhole, Uploads, Honest
<1> QED
  BY <1>1, <1>2, <1>3, RestStep, Zenon

\* A retry goes back to where the request is made, or ends the command.
LEMMA RetryStep ==
  ASSUME HelperInv, NEW j \in Jobs, Rest(j), NEW a, doRetry(j, a), tree'[j] = tree[j],
         \/ a = "put" /\ proc[j].at = "send"
         \/ a = "get" /\ proc[j].at \in {"get", "copy"}
         \/ a = "stream" /\ proc[j].at = "post"
         \/ a = "download" /\ proc[j].at = "download"
  PROVE  HelperInv'
<1> DEFINE r == [proc[j] EXCEPT !.at = a, !.tries = proc[j].tries + 1, !.temp = Nothing, !.body = Nothing]
<1>1. /\ r \in ProcState /\ r.at = a /\ r.exit = proc[j].exit /\ r.call = proc[j].call
      /\ r.files = proc[j].files
  <2>1. proc[j] \in ProcState /\ a \in Ats /\ proc[j].tries + 1 \in Nat /\ Nothing \in Archives
    BY NothingIs, ProcTyped DEF Ats
  <2> QED
    BY <2>1, Zenon DEF ProcState
<1>2. CASE Going(j, r)
  <2> HIDE DEF r
  <2>1. JobOK(proc[j], tree[j], artifacts[j], cache # Nothing, diskFull)
    BY ProcTyped, Zenon
  <2>2. Running(r)
    BY <1>1, <2>1, Zenon DEF JobOK, Running
  <2>3. Carries(r, (cache # Nothing)') /\ CarriesWhole(r, diskFull') /\ Honest(r, artifacts'[j])
    BY <1>1, <2>1, Zenon DEF JobOK, Carries, CarriesWhole, Honest, Rest
  <2>4. Uploads(r, tree'[j])
    BY <1>1, <2>1, Zenon DEF JobOK, Uploads
  <2> QED
    BY <1>1, <1>2, <2>2, <2>3, <2>4, RestStep, Zenon DEF JobOK
<1>3. CASE Fail(j)
  BY <1>3, FailStep, Zenon
<1> QED
  BY <1>2, <1>3, Zenon DEF doRetry, Again

-----------------------------------------------------------------------------
(* The commands, step by step                                              *)

\* The script starts a helper command, which has claimed nothing yet.
LEMMA BeginStep == ASSUME HelperInv, NEW j \in Jobs, Begin(j) PROVE HelperInv'
<1>1. PICK c \in HelperCalls, a \in Ats :
        /\ Going(j, [Idle EXCEPT !.call = c, !.calls = proc[j].calls + 1, !.tries = 1, !.at = a])
        /\ \/ c.name \in {"cache-archiver", "artifacts-uploader"} /\ a = "enumerate"
           \/ c.name = "cache-extractor" /\ c.url /\ a = "get"
           \/ c.name = "cache-extractor" /\ ~c.url /\ a = "extract"
           \/ c.name \notin {"cache-archiver", "artifacts-uploader", "cache-extractor"} /\ a = "download"
  BY Zenon DEF Begin, Ats
<1> DEFINE r == [Idle EXCEPT !.call = c, !.calls = proc[j].calls + 1, !.tries = 1, !.at = a]
<1>2. r \in ProcState /\ r.at = a /\ r.call = c /\ r.exit = "none"
  <2>1. Idle \in ProcState /\ Idle.exit = "none" /\ c \in Calls /\ proc[j].calls + 1 \in Nat /\ 1 \in Nat
    BY IdleIs, ProcTyped DEF Calls
  <2> QED
    BY <2>1, Zenon DEF ProcState
<1>3. Going(j, r)
  BY <1>1, Zenon
<1> HIDE DEF r
<1>4. JobOK(r, tree'[j], artifacts'[j], (cache # Nothing)', diskFull')
  BY <1>1, <1>2, Zenon DEF JobOK, Running, Carries, CarriesWhole, Uploads, Honest
<1> QED
  BY <1>2, <1>3, <1>4, RestSame, RestStep, Zenon DEF Begin

\* The script changes files only between commands, so no uploader loses one.
LEMMA WorkStep == ASSUME HelperInv, NEW j \in Jobs, Work(j) PROVE HelperInv'
<1>1. PICK f \in Files : tree' = [tree EXCEPT ![j][f] = now']
  BY Zenon DEF Work
<1>2. now' \in Nat /\ tree' \in [Jobs -> [Files -> Nat]] /\ \A k \in Jobs \ {j} : tree'[k] = tree[k]
  BY <1>1 DEF HelperInv, HelperTypes, Work
<1>3. Rest(j)
  BY <1>2, Zenon DEF HelperInv, HelperTypes, Shared, CacheWhole, Rest, Work
<1>4. JobOK(proc[j], tree[j], artifacts[j], cache # Nothing, diskFull) /\ proc[j] \in ProcState
  BY ProcTyped, Zenon
<1>5. JobOK(proc[j], tree'[j], artifacts'[j], (cache # Nothing)', diskFull')
  BY <1>4, Zenon DEF JobOK, Running, Carries, CarriesWhole, Uploads, Honest, Work, At
<1>6. Going(j, proc[j])
  BY Zenon DEF HelperInv, HelperTypes, Going, Work
<1> QED
  BY <1>3, <1>4, <1>5, <1>6, RestStep, Zenon

\* A killed command leaves the shared archives as they are.
LEMMA KilledStep == ASSUME HelperInv, NEW j \in Jobs, Killed(j) PROVE HelperInv'
  BY RestSame, FailStep, Zenon DEF Killed

\* The enumerated files exist.
LEMMA enumerateStep == ASSUME HelperInv, NEW j \in Jobs, enumerate(j) PROVE HelperInv'
<1> DEFINE fs == processPaths(j) \cup processUntracked(j)
           a == IF call(j).name = "cache-archiver" THEN "check" ELSE "stream"
           r == [proc[j] EXCEPT !.files = fs, !.at = a]
<1>1. fs \in SUBSET Files /\ \A f \in fs : tree[j][f] > 0
  BY Zenon DEF processPaths, processUntracked, processed
<1>2. a \in Ats /\ (a = "check" <=> proc[j].call.name = "cache-archiver") /\ a \in {"check", "stream"}
  BY Zenon DEF call, Ats
<1>3. Going(j, r)
  BY Zenon DEF enumerate
<1> HIDE DEF fs, a
<1>4. r \in ProcState /\ r.at = a /\ r.call = proc[j].call /\ r.exit = proc[j].exit /\ r.files = fs
  BY <1>1, <1>2, ProcTyped, Zenon DEF ProcState
<1> HIDE DEF r
<1>5. JobOK(proc[j], tree[j], artifacts[j], cache # Nothing, diskFull)
  BY ProcTyped, Zenon
<1>6. Running(r)
  BY <1>2, <1>4, <1>5, Zenon DEF JobOK, Running, enumerate, At
<1>7. Uploads(r, tree'[j])
  BY <1>1, <1>2, <1>4, Zenon DEF Uploads, enumerate, outside
<1>8. Carries(r, (cache # Nothing)') /\ CarriesWhole(r, diskFull') /\ Honest(r, artifacts'[j])
  BY <1>2, <1>4, Zenon DEF Carries, CarriesWhole, Honest
<1> QED
  BY <1>3, <1>4, <1>6, <1>7, <1>8, RestSame, RestStep, Zenon DEF JobOK, enumerate

\* What CreateZipArchive makes.
LEMMA ArchiveIs ==
  ASSUME HelperInv, NEW j \in Jobs, NEW t \in Nat, NEW w \in BOOLEAN
  PROVE  /\ CreateZipArchive(j, t, w) \in Archives
         /\ CreateZipArchive(j, t, w).time = t /\ CreateZipArchive(j, t, w).whole = w
         /\ (\A f \in proc[j].files : tree[j][f] > 0) =>
              {f \in Files : CreateZipArchive(j, t, w).files[f] > 0} = proc[j].files
<1>1. tree[j] \in [Files -> Nat] /\ proc[j].files \in SUBSET Files
  BY ProcTyped, Zenon DEF ProcState
<1> DEFINE fs == [f \in Files |-> IF f \in proc[j].files /\ tree[j][f] > 0 THEN tree[j][f] ELSE 0]
<1>2. fs \in [Files -> Nat]
  BY <1>1, Zenon
<1>3. (\A f \in proc[j].files : tree[j][f] > 0) => {f \in Files : fs[f] > 0} = proc[j].files
  BY <1>1
<1>4. CreateZipArchive(j, t, w) = [files |-> fs, time |-> t, whole |-> w]
  BY Zenon DEF CreateZipArchive, createZipEntry
<1> HIDE DEF fs
<1>5. CreateZipArchive(j, t, w).files = fs
  BY <1>4
<1> QED
  BY <1>2, <1>3, <1>4, <1>5 DEF Archives

\* isFileChanged decides before anything is written.
LEMMA checkStep == ASSUME HelperInv, NEW j \in Jobs, check(j) PROVE HelperInv'
<1>0. Rest(j) /\ proc[j].at = "check"
  BY RestSame, Zenon DEF check, At
<1>1. /\ JobOK(proc[j], tree[j], artifacts[j], cache # Nothing, diskFull) /\ proc[j] \in ProcState
      /\ proc[j].call.name = "cache-archiver"
  BY <1>0, ProcTyped, Zenon DEF JobOK, Running
<1>2. CASE Succeed(j)
  BY <1>0, <1>1, <1>2, SucceedStep, Zenon DEF Honest
<1>3. CASE Move(j, "zip")
  <2> DEFINE r == [proc[j] EXCEPT !.at = "zip"]
  <2>1. r \in ProcState /\ r.at = "zip" /\ r.call = proc[j].call /\ r.exit = proc[j].exit
    BY <1>1, Zenon DEF ProcState, Ats
  <2>2. Going(j, r)
    BY <1>3, Zenon DEF Move
  <2> HIDE DEF r
  <2>3. JobOK(r, tree'[j], artifacts'[j], (cache # Nothing)', diskFull')
    BY <1>0, <1>1, <2>1, Zenon DEF JobOK, Running, Carries, CarriesWhole, Uploads, Honest
  <2> QED
    BY <1>0, <2>1, <2>2, <2>3, RestStep, Zenon
<1> QED
  BY <1>2, <1>3, Zenon DEF check

\* The archive is written under another name; it is whole unless the disk is full.
LEMMA CreateZipFileStep == ASSUME HelperInv, NEW j \in Jobs, CreateZipFile(j) PROVE HelperInv'
<1>0. Rest(j) /\ proc[j].at = "zip"
  <2>0. diskFull => diskFull'
    BY Zenon DEF CreateZipFile
  <2>1. now' = now /\ tree' = tree /\ cache' = cache /\ remote' = remote /\ artifacts' = artifacts
        /\ proc[j].at = "zip"
    BY Zenon DEF CreateZipFile, At
  <2>2. Shared'
    BY <2>0, <2>1, Zenon DEF HelperInv, Shared, CacheWhole
  <2> QED
    BY <2>0, <2>1, <2>2, Zenon DEF HelperInv, HelperTypes, Rest
<1>1. /\ JobOK(proc[j], tree[j], artifacts[j], cache # Nothing, diskFull) /\ proc[j] \in ProcState
      /\ proc[j].call.name = "cache-archiver" /\ proc[j].exit = "none"
  BY <1>0, ProcTyped, Zenon DEF JobOK, Running
<1>2. CASE Fail(j)
  BY <1>0, <1>2, FailStep, Zenon
<1>3. ASSUME NEW w \in BOOLEAN, diskFull' = (diskFull \/ ~w),
             Going(j, [proc[j] EXCEPT !.at = "rename", !.temp = CreateZipArchive(j, now, w)])
      PROVE  HelperInv'
  <2> DEFINE z == CreateZipArchive(j, now, w)
             r == [proc[j] EXCEPT !.at = "rename", !.temp = z]
  <2>1. z \in Archives /\ z.whole = w
    BY ArchiveIs DEF HelperInv, HelperTypes
  <2>2. Going(j, r)
    BY <1>3, Zenon
  <2> HIDE DEF z
  <2>3. r \in ProcState /\ r.at = "rename" /\ r.temp = z /\ r.call = proc[j].call /\ r.exit = proc[j].exit
    BY <1>1, <2>1, Zenon DEF ProcState, Ats
  <2> HIDE DEF r
  <2>4. JobOK(r, tree'[j], artifacts'[j], (cache # Nothing)', diskFull')
    BY <1>1, <1>3, <2>1, <2>3, Zenon DEF JobOK, Running, Carries, CarriesWhole, Uploads, Honest
  <2> QED
    BY <1>0, <2>2, <2>3, <2>4, RestStep, Zenon
<1> QED
  BY <1>2, <1>3, Zenon DEF CreateZipFile

\* Only a finished archive takes the name of the cache.
LEMMA RenameStep == ASSUME HelperInv, NEW j \in Jobs, Rename(j) PROVE HelperInv'
<1> DEFINE made == proc[j].call.name = "cache-archiver"
<1>0. /\ JobOK(proc[j], tree[j], artifacts[j], cache # Nothing, diskFull) /\ proc[j] \in ProcState
      /\ proc[j].at = "rename" /\ proc[j].exit = "none" /\ proc[j].temp \in Archives
      /\ made \/ (proc[j].call.name = "cache-extractor" /\ proc[j].temp.time > 0)
      /\ ~diskFull => proc[j].temp.whole
  BY ProcTyped, Zenon DEF JobOK, Running, Carries, CarriesWhole, Rename, At
<1>1. CASE Fail(j) /\ UNCHANGED <<cache, now>>
  <2>1. Rest(j)
    BY <1>1, RestSame, Zenon DEF Rename, outside
  <2> QED
    BY <1>1, <2>1, FailStep, Zenon
<1>2. ASSUME cache' = [proc[j].temp EXCEPT !.time = IF made THEN now + 1 ELSE @],
             now' = IF made THEN now + 1 ELSE now,
             \/ made /\ Succeed(j)
             \/ Going(j, [proc[j] EXCEPT !.at = IF made THEN "put" ELSE "extract", !.temp = Nothing])
      PROVE  HelperInv'
  <2>1. now \in Nat /\ now' \in Nat
    BY <1>2 DEF HelperInv, HelperTypes
  <2>2. cache' \in Archives /\ cache'.time > 0 /\ cache'.whole = proc[j].temp.whole
    BY <1>0, <1>2, <2>1 DEF Archives
  <2>3. cache' # Nothing
    BY <2>2, NothingIs
  <2>4. Rest(j)
    BY <1>0, <2>1, <2>2, <2>3, Zenon DEF HelperInv, HelperTypes, Shared, CacheWhole, Rest, Rename
  <2>5. CASE Succeed(j) /\ made
    BY <2>4, <2>5, SucceedStep, Zenon DEF Honest
  <2>6. ASSUME NEW a \in {"extract", "put"}, a = "put" <=> made,
               Going(j, [proc[j] EXCEPT !.at = a, !.temp = Nothing])
        PROVE  HelperInv'
    <3> DEFINE r == [proc[j] EXCEPT !.at = a, !.temp = Nothing]
    <3>1. r \in ProcState /\ r.at = a /\ r.call = proc[j].call /\ r.exit = proc[j].exit
      BY <1>0, NothingIs, Zenon DEF ProcState, Ats
    <3>2. Going(j, r)
      BY <2>6, Zenon
    <3> HIDE DEF r
    <3>3. JobOK(r, tree'[j], artifacts'[j], (cache # Nothing)', diskFull')
      <4>1. Running(r)
        BY <1>0, <2>6, <3>1, Zenon DEF JobOK, Running
      <4>2. Carries(r, (cache # Nothing)')
        BY <2>3, <2>6, <3>1, Zenon DEF Carries
      <4>3. CarriesWhole(r, diskFull') /\ Uploads(r, tree'[j]) /\ Honest(r, artifacts'[j])
        BY <2>6, <3>1, Zenon DEF CarriesWhole, Uploads, Honest
      <4> QED
        BY <4>1, <4>2, <4>3, Zenon DEF JobOK
    <3> QED
      BY <2>4, <3>1, <3>2, <3>3, RestStep, Zenon
  <2> QED
    BY <1>2, <2>5, <2>6, Zenon
<1> QED
  BY <1>1, <1>2, Zenon DEF Rename, call

\* upload opens the file that is there, a whole one.
LEMMA openStep == ASSUME HelperInv, NEW j \in Jobs, open(j) PROVE HelperInv'
<1> DEFINE r == [proc[j] EXCEPT !.at = "send", !.body = cache]
<1>0. Rest(j) /\ proc[j].at = "put" /\ Going(j, r)
  BY RestSame, Zenon DEF open, At
<1>1. /\ JobOK(proc[j], tree[j], artifacts[j], cache # Nothing, diskFull) /\ proc[j] \in ProcState
      /\ cache \in Archives
  BY ProcTyped, Zenon DEF HelperInv, HelperTypes
<1>2. cache # Nothing /\ (~diskFull => cache.whole) /\ cache' = cache /\ diskFull' = diskFull
  BY <1>0, <1>1, Zenon DEF JobOK, Carries, HelperInv, Shared, CacheWhole, open, outside
<1>3. /\ r \in ProcState /\ r.at = "send" /\ r.call = proc[j].call /\ r.exit = proc[j].exit
      /\ r.body = cache
  BY <1>1, Zenon DEF ProcState, Ats
<1> HIDE DEF r
<1>4. Running(r)
  BY <1>0, <1>1, <1>3, Zenon DEF JobOK, Running
<1>5. Carries(r, (cache # Nothing)') /\ CarriesWhole(r, diskFull')
  BY <1>2, <1>3, Zenon DEF Carries, CarriesWhole
<1>6. Uploads(r, tree'[j]) /\ Honest(r, artifacts'[j])
  BY <1>3, Zenon DEF Uploads, Honest
<1> QED
  BY <1>0, <1>3, <1>4, <1>5, <1>6, RestStep, Zenon DEF JobOK

\* The server stores what was sent completely, or nothing.
LEMMA uploadStep == ASSUME HelperInv, NEW j \in Jobs, now > 0, upload(j) PROVE HelperInv'
<1>0. /\ JobOK(proc[j], tree[j], artifacts[j], cache # Nothing, diskFull) /\ proc[j] \in ProcState
      /\ proc[j].at = "send" /\ proc[j].body \in Archives
      /\ proc[j].call.name = "cache-archiver" /\ (~diskFull => proc[j].body.whole)
      /\ now' = now /\ tree' = tree /\ cache' = cache /\ artifacts' = artifacts /\ diskFull' = diskFull
  BY ProcTyped, Zenon DEF JobOK, Running, CarriesWhole, upload, At
<1>1. remote' = remote \/ remote' = [proc[j].body EXCEPT !.time = now]
  BY Zenon DEF upload
<1>2. remote' \in Archives /\ (remote' = Nothing \/ remote'.time > 0)
      /\ (~diskFull => remote' = Nothing \/ remote'.whole)
  <2>1. CASE remote' = remote
    BY <2>1, Zenon DEF HelperInv, HelperTypes, Shared, CacheWhole
  <2>2. CASE remote' = [proc[j].body EXCEPT !.time = now]
    BY <1>0, <2>2, Zenon DEF HelperInv, HelperTypes, Archives
  <2> QED
    BY <1>1, <2>1, <2>2, Zenon
<1>3. Rest(j)
  BY <1>0, <1>2, Zenon DEF HelperInv, HelperTypes, Shared, CacheWhole, Rest
<1>4. CASE Succeed(j)
  BY <1>0, <1>3, <1>4, SucceedStep, Zenon DEF Honest
<1>5. CASE doRetry(j, "put")
  BY <1>0, <1>3, <1>5, RetryStep, Zenon
<1>6. CASE Fail(j)
  BY <1>3, <1>6, FailStep, Zenon
<1> QED
  BY <1>4, <1>5, <1>6, Zenon DEF upload, retryOnServerError

\* The extractor asks for the object that is there.
LEMMA getCacheStep == ASSUME HelperInv, NEW j \in Jobs, getCache(j) PROVE HelperInv'
<1> DEFINE r == [proc[j] EXCEPT !.at = "compare", !.body = remote]
<1>0. /\ JobOK(proc[j], tree[j], artifacts[j], cache # Nothing, diskFull) /\ proc[j] \in ProcState
      /\ proc[j].at = "get" /\ remote \in Archives /\ Rest(j) /\ diskFull' = diskFull /\ tree' = tree
  BY ProcTyped, RestSame, Zenon DEF HelperInv, HelperTypes, getCache, At, outside
<1>1. CASE remote # Nothing /\ Going(j, r)
  <2>1. /\ r \in ProcState /\ r.at = "compare" /\ r.call = proc[j].call /\ r.exit = proc[j].exit
        /\ r.body = remote
    BY <1>0, Zenon DEF ProcState, Ats
  <2> HIDE DEF r
  <2>2. remote.time > 0 /\ (~diskFull => remote.whole)
    BY <1>1, Zenon DEF HelperInv, Shared, CacheWhole
  <2>3. Running(r)
    BY <1>0, <2>1, Zenon DEF JobOK, Running
  <2>4. Carries(r, (cache # Nothing)') /\ CarriesWhole(r, diskFull')
    BY <1>0, <2>1, <2>2, Zenon DEF Carries, CarriesWhole
  <2>5. Uploads(r, tree'[j]) /\ Honest(r, artifacts'[j])
    BY <2>1, Zenon DEF Uploads, Honest
  <2> QED
    BY <1>0, <1>1, <2>1, <2>3, <2>4, <2>5, RestStep, Zenon DEF JobOK
<1>2. CASE doRetry(j, "get")
  BY <1>0, <1>2, RetryStep, Zenon
<1>3. CASE Fail(j)
  BY <1>0, <1>3, FailStep, Zenon
<1> QED
  BY <1>1, <1>2, <1>3, Zenon DEF getCache, retryOnServerError

\* The file is kept when it is as new as the object.
LEMMA checkIfUpToDateStep == ASSUME HelperInv, NEW j \in Jobs, checkIfUpToDate(j) PROVE HelperInv'
<1> DEFINE a == IF cache # Nothing /\ proc[j].body.time <= cache.time THEN "extract" ELSE "copy"
           r == [proc[j] EXCEPT !.at = a]
<1>0. /\ JobOK(proc[j], tree[j], artifacts[j], cache # Nothing, diskFull) /\ proc[j] \in ProcState
      /\ proc[j].at = "compare" /\ Rest(j) /\ diskFull' = diskFull /\ cache' = cache
  BY ProcTyped, RestSame, Zenon DEF checkIfUpToDate, At, outside
<1>1. a \in {"extract", "copy"} /\ (a = "extract" => cache # Nothing) /\ Going(j, r)
  BY Zenon DEF checkIfUpToDate, Move
<1> HIDE DEF a
<1>2. /\ r \in ProcState /\ r.at = a /\ r.call = proc[j].call /\ r.exit = proc[j].exit
      /\ r.body = proc[j].body
  BY <1>0, <1>1, Zenon DEF ProcState, Ats
<1> HIDE DEF r
<1>3. Running(r)
  BY <1>0, <1>1, <1>2, Zenon DEF JobOK, Running
<1>4. Carries(r, (cache # Nothing)') /\ CarriesWhole(r, diskFull')
  BY <1>0, <1>1, <1>2, Zenon DEF JobOK, Carries, CarriesWhole
<1>5. Uploads(r, tree'[j]) /\ Honest(r, artifacts'[j])
  BY <1>1, <1>2, Zenon DEF Uploads, Honest
<1> QED
  BY <1>0, <1>1, <1>2, <1>3, <1>4, <1>5, RestStep, Zenon DEF JobOK

\* What is downloaded is written under another name.
LEMMA downloadStep == ASSUME HelperInv, NEW j \in Jobs, download(j) PROVE HelperInv'
<1> DEFINE r == [proc[j] EXCEPT !.at = "rename", !.temp = proc[j].body]
<1>0. /\ JobOK(proc[j], tree[j], artifacts[j], cache # Nothing, diskFull) /\ proc[j] \in ProcState
      /\ proc[j].at = "copy" /\ Rest(j) /\ diskFull' = diskFull /\ tree' = tree
      /\ proc[j].body \in Archives
  BY ProcTyped, RestSame, Zenon DEF download, At, outside
<1>1. CASE Going(j, r)
  <2>1. /\ r \in ProcState /\ r.at = "rename" /\ r.call = proc[j].call /\ r.exit = proc[j].exit
        /\ r.temp = proc[j].body
    BY <1>0, Zenon DEF ProcState, Ats
  <2> HIDE DEF r
  <2>2. Running(r)
    BY <1>0, <2>1, Zenon DEF JobOK, Running
  <2>3. Carries(r, (cache # Nothing)') /\ CarriesWhole(r, diskFull')
    BY <1>0, <2>1, Zenon DEF JobOK, Carries, CarriesWhole
  <2>4. Uploads(r, tree'[j]) /\ Honest(r, artifacts'[j])
    BY <2>1, Zenon DEF Uploads, Honest
  <2> QED
    BY <1>0, <1>1, <2>1, <2>2, <2>3, <2>4, RestStep, Zenon DEF JobOK
<1>2. CASE doRetry(j, "get")
  BY <1>0, <1>2, RetryStep, Zenon
<1>3. CASE Fail(j)
  BY <1>0, <1>3, FailStep, Zenon
<1> QED
  BY <1>1, <1>2, <1>3, Zenon DEF download

\* A whole archive is taken out; the files change, and only the job's own.
LEMMA ExtractStep ==
  ASSUME HelperInv, NEW j \in Jobs, NEW z \in Archives, z.whole, ExtractZipArchive(j, z),
         now' = now /\ cache' = cache /\ remote' = remote /\ artifacts' = artifacts /\ diskFull' = diskFull,
         proc[j].at \in {"extract", "unzip"}
  PROVE  HelperInv'
<1> DEFINE r == [Succeeded(j) EXCEPT !.got = z]
<1>0. /\ JobOK(proc[j], tree[j], artifacts[j], cache # Nothing, diskFull) /\ proc[j] \in ProcState
      /\ Going(j, r)
  BY ProcTyped, Zenon DEF ExtractZipArchive
<1>1. tree' \in [Jobs -> [Files -> Nat]] /\ \A k \in Jobs \ {j} : tree'[k] = tree[k]
  <2>1. \A f \in Files : extractZipFile(j, z, f) \subseteq Nat
    BY ProcTyped DEF extractZipFile, Archives
  <2>2. PICK src \in Nat, obj \in Nat : tree' = [tree EXCEPT ![j] = [src |-> src, obj |-> obj]]
    BY <2>1, Zenon DEF ExtractZipArchive, Files
  <2>3. [src |-> src, obj |-> obj] \in [Files -> Nat]
    BY TreeIs, Zenon
  <2> QED
    BY <2>2, <2>3, Zenon DEF HelperInv, HelperTypes
<1>2. Rest(j)
  BY <1>1, Zenon DEF HelperInv, HelperTypes, Shared, CacheWhole, Rest
<1>3. r \in ProcState /\ r.at = "idle" /\ r.call = proc[j].call /\ r.got = z
  <2>1. Succeeded(j) \in ProcState /\ Succeeded(j).at = "idle" /\ Succeeded(j).call = proc[j].call
    BY <1>0, NothingIs, Zenon DEF Succeeded, ProcState, Ats
  <2> HIDE DEF Succeeded
  <2> QED
    BY <2>1, Zenon DEF ProcState
<1> HIDE DEF r
<1>4. Running(r) /\ Carries(r, (cache # Nothing)') /\ CarriesWhole(r, diskFull') /\ Uploads(r, tree'[j])
  BY <1>3, Zenon DEF Running, Carries, CarriesWhole, Uploads
<1>5. Honest(r, artifacts'[j])
  BY <1>0, <1>3, Zenon DEF JobOK, Running, Honest
<1> QED
  BY <1>0, <1>2, <1>3, <1>4, <1>5, RestStep, Zenon DEF JobOK

\* The extractor succeeds only with an archive, or without one where there is no server.
LEMMA ExtractZipFileStep == ASSUME HelperInv, NEW j \in Jobs, ExtractZipFile(j) PROVE HelperInv'
<1>0. /\ JobOK(proc[j], tree[j], artifacts[j], cache # Nothing, diskFull) /\ cache \in Archives
      /\ proc[j].at = "extract" /\ proc[j].call.name = "cache-extractor"
      /\ now' = now /\ cache' = cache /\ remote' = remote /\ artifacts' = artifacts /\ diskFull' = diskFull
  BY ProcTyped, Zenon DEF HelperInv, HelperTypes, JobOK, Running, ExtractZipFile, At
<1>1. tree' = tree => Rest(j)
  BY <1>0, Zenon DEF HelperInv, HelperTypes, Shared, CacheWhole, Rest
<1>2. CASE cache = Nothing /\ Succeed(j) /\ tree' = tree
  <2>1. ~proc[j].call.url
    BY <1>0, <1>2, Zenon DEF JobOK, Carries
  <2> QED
    BY <1>0, <1>1, <1>2, <2>1, SucceedStep, Zenon DEF Honest
<1>3. CASE cache.whole /\ ExtractZipArchive(j, cache)
  BY <1>0, <1>3, ExtractStep, Zenon
<1>4. CASE Fail(j) /\ tree' = tree
  BY <1>1, <1>4, FailStep, Zenon
<1> QED
  BY <1>2, <1>3, <1>4, NothingIs, Zenon DEF ExtractZipFile

\* The uploader streams the files it has enumerated.
LEMMA createReadStreamStep == ASSUME HelperInv, NEW j \in Jobs, createReadStream(j) PROVE HelperInv'
<1> DEFINE z == CreateZipArchive(j, 0, call(j).format # "raw")
           r == [proc[j] EXCEPT !.at = "post", !.body = z]
<1>0. /\ JobOK(proc[j], tree[j], artifacts[j], cache # Nothing, diskFull) /\ proc[j] \in ProcState
      /\ proc[j].at = "stream" /\ proc[j].call.name = "artifacts-uploader" /\ Rest(j) /\ tree' = tree
      /\ \A f \in proc[j].files : tree[j][f] > 0
  BY ProcTyped, RestSame, Zenon DEF JobOK, Running, Uploads, createReadStream, At, outside
<1>1. CASE proc[j].files = {} /\ Succeed(j)
  BY <1>0, <1>1, SucceedStep, Zenon DEF Honest
<1>2. CASE Fail(j)
  BY <1>0, <1>2, FailStep, Zenon
<1>3. CASE Going(j, r)
  <2>1. z \in Archives /\ {f \in Files : z.files[f] > 0} = proc[j].files
    <3> DEFINE made(t, w) == CreateZipArchive(j, t, w)
    <3>1. \A t \in Nat, w \in BOOLEAN :
            made(t, w) \in Archives /\ {f \in Files : made(t, w).files[f] > 0} = proc[j].files
      BY <1>0, ArchiveIs
    <3>2. z = made(0, call(j).format # "raw")
      BY Zenon
    <3> HIDE DEF z, made
    <3> QED
      BY <3>1, <3>2, Zenon
  <2> HIDE DEF z
  <2>2. /\ r \in ProcState /\ r.at = "post" /\ r.call = proc[j].call /\ r.exit = proc[j].exit
        /\ r.files = proc[j].files /\ r.body = z
    BY <1>0, <2>1, Zenon DEF ProcState, Ats
  <2> HIDE DEF r
  <2>3. Running(r)
    BY <1>0, <2>2, Zenon DEF JobOK, Running
  <2>4. Carries(r, (cache # Nothing)') /\ CarriesWhole(r, diskFull') /\ Honest(r, artifacts'[j])
    BY <2>2, Zenon DEF Carries, CarriesWhole, Honest
  <2>5. Uploads(r, tree'[j])
    BY <1>0, <2>1, <2>2, Zenon DEF Uploads
  <2> QED
    BY <1>0, <1>3, <2>2, <2>3, <2>4, <2>5, RestStep, Zenon DEF JobOK
<1> QED
  BY <1>1, <1>2, <1>3, Zenon DEF createReadStream

\* GitLab takes the whole body or answers with an error.
LEMMA createAndUploadStep == ASSUME HelperInv, NEW j \in Jobs, createAndUpload(j) PROVE HelperInv'
<1>0. /\ JobOK(proc[j], tree[j], artifacts[j], cache # Nothing, diskFull) /\ proc[j].body \in Archives
      /\ proc[j].at = "post" /\ proc[j].call.name = "artifacts-uploader"
      /\ {f \in Files : proc[j].body.files[f] > 0} = proc[j].files
      /\ now' = now /\ tree' = tree /\ cache' = cache /\ remote' = remote /\ diskFull' = diskFull
  BY ProcTyped, Zenon DEF JobOK, Running, Uploads, createAndUpload, At
<1>1. PICK res \in UploadRawArtifacts :
        /\ artifacts' = IF res.taken THEN [artifacts EXCEPT ![j] = proc[j].body] ELSE artifacts
        /\ CASE res.state = "UploadSucceeded" -> Succeed(j)
             [] res.state = "UploadFailed"    -> doRetry(j, "stream")
             [] OTHER                         -> Fail(j)
  BY Zenon DEF createAndUpload
<1>2. /\ artifacts' \in [Jobs -> Archives] /\ \A k \in Jobs \ {j} : artifacts'[k] = artifacts[k]
      /\ res.taken => artifacts'[j] = proc[j].body
  BY <1>0, <1>1, Zenon DEF HelperInv, HelperTypes
<1>3. Rest(j)
  BY <1>0, <1>2, Zenon DEF HelperInv, HelperTypes, Shared, CacheWhole, Rest
<1>4. CASE Succeed(j) /\ res.state = "UploadSucceeded"
  <2>1. res.taken
    BY <1>4, Zenon DEF UploadRawArtifacts
  <2>2. {f \in Files : artifacts'[j].files[f] > 0} = proc[j].files
    BY <1>0, <1>2, <2>1, Zenon
  <2> QED
    BY <1>0, <1>3, <1>4, <2>2, SucceedStep, Zenon DEF Honest
<1>5. CASE doRetry(j, "stream")
  BY <1>0, <1>3, <1>5, RetryStep, Zenon
<1>6. CASE Fail(j)
  BY <1>3, <1>6, FailStep, Zenon
<1> QED
  BY <1>1, <1>4, <1>5, <1>6, Zenon

\* A download that failed is tried again or fails the command.
LEMMA downloadArtifactsStep == ASSUME HelperInv, NEW j \in Jobs, downloadArtifacts(j) PROVE HelperInv'
<1>0. /\ JobOK(proc[j], tree[j], artifacts[j], cache # Nothing, diskFull) /\ proc[j] \in ProcState
      /\ proc[j].at = "download" /\ Rest(j) /\ tree' = tree
  BY ProcTyped, RestSame, Zenon DEF downloadArtifacts, At, outside
<1>1. ASSUME NEW k \in Jobs, Going(j, [proc[j] EXCEPT !.at = "unzip", !.temp = artifacts[k]])
      PROVE  HelperInv'
  <2> DEFINE r == [proc[j] EXCEPT !.at = "unzip", !.temp = artifacts[k]]
  <2>1. r \in ProcState /\ r.at = "unzip" /\ r.call = proc[j].call /\ r.exit = proc[j].exit
    BY <1>0, ProcTyped, Zenon DEF ProcState, Ats
  <2>2. Going(j, r)
    BY <1>1, Zenon
  <2> HIDE DEF r
  <2>3. Running(r)
    BY <1>0, <2>1, Zenon DEF JobOK, Running
  <2>4. /\ Carries(r, (cache # Nothing)') /\ CarriesWhole(r, diskFull') /\ Honest(r, artifacts'[j])
        /\ Uploads(r, tree'[j])
    BY <2>1, Zenon DEF Carries, CarriesWhole, Honest, Uploads
  <2> QED
    BY <1>0, <2>1, <2>2, <2>3, <2>4, RestStep, Zenon DEF JobOK
<1>2. CASE doRetry(j, "download")
  BY <1>0, <1>2, RetryStep, Zenon
<1>3. CASE Fail(j)
  BY <1>0, <1>3, FailStep, Zenon
<1> QED
  BY <1>1, <1>2, <1>3, Zenon DEF downloadArtifacts

\* Only a whole archive can be taken out.
LEMMA unzipStep == ASSUME HelperInv, NEW j \in Jobs, unzip(j) PROVE HelperInv'
<1>0. /\ proc[j].temp \in Archives /\ proc[j].at = "unzip"
      /\ now' = now /\ cache' = cache /\ remote' = remote /\ artifacts' = artifacts /\ diskFull' = diskFull
  BY ProcTyped, Zenon DEF unzip, At
<1>1. CASE proc[j].temp.whole /\ ExtractZipArchive(j, proc[j].temp)
  BY <1>0, <1>1, ExtractStep, Zenon
<1>2. CASE Fail(j) /\ tree' = tree
  <2>1. Rest(j)
    BY <1>0, <1>2, Zenon DEF HelperInv, HelperTypes, Shared, CacheWhole, Rest
  <2> QED
    BY <1>2, <2>1, FailStep, Zenon
<1> QED
  BY <1>1, <1>2, Zenon DEF unzip

-----------------------------------------------------------------------------
\* The commands start with no archive and no command.
LEMMA HelperInvInit == Init => HelperInv
<1>1. ASSUME Init PROVE HelperTypes
  <2>1. /\ now \in Nat /\ cache = Nothing /\ remote = Nothing /\ artifacts = [j \in Jobs |-> Nothing]
        /\ tree = [j \in Jobs |-> [src |-> now, obj |-> 0]]
    BY <1>1 DEF Init, HelperInit, helperIdle
  <2>2. [src |-> now, obj |-> 0] \in [Files -> Nat]
    BY <2>1, TreeIs, Zenon
  <2>3. proc \in [Jobs -> ProcState]
    BY <1>1, IdleIs, HelperAssumption DEF Init, HelperInit, helperIdle, ProcState
  <2> QED
    BY <2>1, <2>2, <2>3, NothingIs, Zenon DEF HelperTypes
<1>2. ASSUME Init PROVE Shared
  BY <1>2, Zenon DEF Init, HelperInit, helperIdle, Shared, CacheWhole
<1>3. ASSUME Init, NEW j \in Jobs PROVE JobOK(proc[j], tree[j], artifacts[j], cache # Nothing, diskFull)
  <2>1. proc[j].at = "idle" /\ proc[j].exit = "none"
    BY <1>3, IdleIs DEF Init, HelperInit, helperIdle, ProcState
  <2> QED
    BY <2>1, Zenon DEF JobOK, Running, Carries, CarriesWhole, Uploads, Honest
<1> QED
  BY <1>1, <1>2, <1>3, Zenon DEF HelperInv

\* Every step of the helper commands keeps the invariant; the configuration commands do not touch it.
LEMMA HelperInvStep == HelperInv /\ [Next]_<<configVars, helperVars>> => HelperInv'
<1>1. ASSUME HelperInv, UNCHANGED helperVars PROVE HelperInv'
  BY <1>1, Zenon DEF helperVars, HelperInv, HelperTypes, Shared, CacheWhole
<1>2. ASSUME HelperInv, now > 0, NEW j \in Jobs,
             \/ Begin(j) \/ Work(j) \/ Killed(j) \/ enumerate(j)
             \/ check(j) \/ CreateZipFile(j) \/ Rename(j) \/ open(j) \/ upload(j)
             \/ getCache(j) \/ checkIfUpToDate(j) \/ download(j) \/ ExtractZipFile(j)
             \/ createReadStream(j) \/ createAndUpload(j) \/ downloadArtifacts(j) \/ unzip(j)
      PROVE  HelperInv'
  BY <1>2, BeginStep, WorkStep, KilledStep, enumerateStep, checkStep, CreateZipFileStep, RenameStep,
     openStep, uploadStep, getCacheStep, checkIfUpToDateStep, downloadStep, ExtractZipFileStep,
     createReadStreamStep, createAndUploadStep, downloadArtifactsStep, unzipStep, Zenon
<1> QED
  BY <1>1, <1>2, Zenon DEF Next, HelperNext

\* The inductive invariant holds in every behaviour of the helper commands.
LEMMA HelperInvAlways == Spec => []HelperInv
  BY HelperInvInit, HelperInvStep, PTL DEF Spec

\* However many jobs share a cache, whatever their commands and wherever these are
\* killed or try again, its file and its object are whole archives, as long as no
\* archive was closed on a full disk: CreateZipFile and Download write elsewhere and
\* rename, and upload sends what it has opened.
THEOREM CacheAlwaysWhole == Spec => []CacheWhole
<1>1. HelperInv => CacheWhole
  BY Zenon DEF HelperInv, Shared
<1> QED
  BY <1>1, HelperInvAlways, PTL

\* A helper command that exits with success has done what it is for, after any number
\* of retries: doRetry returns the last error, and an upload that was answered sent the
\* very files that were enumerated.
THEOREM ExitAlwaysHonest == Spec => []ExitHonest
<1>1. HelperInv => ExitHonest
  BY Zenon DEF HelperInv, JobOK, Honest, ExitHonest
<1> QED
  BY <1>1, HelperInvAlways, PTL
===============================================================================
