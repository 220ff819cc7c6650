--------------------------- MODULE HelperCommands ---------------------------
(***************************************************************************)
(* The helper binary that a job's scripts call (commands/helpers): the     *)
(* cache archiver and extractor, the artifacts uploader and downloader,    *)
(* with their retries.  Several jobs run side by side; they share the      *)
(* cache's file and its object in the shared cache, and each command may   *)
(* be killed between any two of its steps.                                 *)
(*                                                                         *)
(* An archive is the time of each file it holds (0: it does not hold it),  *)
(* the time of its own file or object, and whether it is whole: a          *)
(* zip file whose end is missing, or one that is no zip file, is not, and  *)
(* is refused when it is opened.                                           *)
(* Time is a counter.                                                      *)
(***************************************************************************)
EXTENDS Naturals, FiniteSets

CONSTANTS
  Jobs,          \* jobs running side by side
  HelperCalls,   \* the calls their scripts make
  Retry,         \* retryHelper.Retry
  MaxCalls,      \* calls of one job
  MaxWorks       \* how often scripts change their files

ASSUME HelperAssumption == Retry \in Nat /\ MaxCalls \in Nat \ {0} /\ MaxWorks \in Nat

VARIABLES
  now,        \* the clock
  works,      \* times a script has changed its files
  tree,       \* job -> file -> when it was last written, 0 when it is absent
  cache,      \* the cache's local file
  remote,     \* its object in the shared cache
  artifacts,  \* job -> the artifacts GitLab has of it
  diskFull,   \* an archive was closed on a full disk (history)
  proc        \* job -> its present or last call

helperVars == <<now, works, tree, cache, remote, artifacts, diskFull, proc>>

Files   == {"src", "obj"}         \* obj is untracked
Absent  == [f \in Files |-> 0]
Nothing == [files |-> Absent, time |-> 0, whole |-> FALSE]
Idle    == [at |-> "idle", call |-> [name |-> "none"], calls |-> 0, files |-> {},
            tries |-> 0, temp |-> Nothing, body |-> Nothing, got |-> Nothing, exit |-> "none"]

HelperInit ==
  /\ now = 1 /\ works = 0 /\ diskFull = FALSE
  /\ tree = [j \in Jobs |-> [src |-> 1, obj |-> 0]]
  /\ cache = Nothing /\ remote = Nothing
  /\ artifacts = [j \in Jobs |-> Nothing] /\ proc = [j \in Jobs |-> Idle]

\* --- Steps of a process --------------------------------------------------------
At(j, a)     == proc[j].at = a
Going(j, r)  == proc' = [proc EXCEPT ![j] = r]
Move(j, a)   == Going(j, [proc[j] EXCEPT !.at = a])
Succeeded(j) == [proc[j] EXCEPT !.at = "idle", !.exit = "ok", !.temp = Nothing, !.body = Nothing,
                                !.tries = 0]
Succeed(j)   == Going(j, Succeeded(j))
Fail(j)      == Going(j, [Idle EXCEPT !.calls = proc[j].calls, !.exit = "failed"])
call(j)      == proc[j].call
outside      == <<now, works, tree, cache, remote, artifacts, diskFull>>

Again(j, a)  == Going(j, [proc[j] EXCEPT !.at = a, !.tries = proc[j].tries + 1,
                                         !.temp = Nothing, !.body = Nothing])

\* Variant of doRetry: the last error is forgotten.
doRetryForgets(j, again) ==
  IF proc[j].tries <= Retry THEN Again(j, again) ELSE Succeed(j)

\* doRetry, after a retryable error: try again, Retry times.
doRetry(j, again) ==
  IF proc[j].tries <= Retry THEN Again(j, again) ELSE Fail(j)

\* The job's script calls a command, or changes a file.
Begin(j) ==
  /\ At(j, "idle") /\ proc[j].calls < MaxCalls
  /\ \E c \in HelperCalls :
       Going(j, [Idle EXCEPT !.call = c, !.calls = proc[j].calls + 1, !.tries = 1,
                    !.at = CASE c.name \in {"cache-archiver", "artifacts-uploader"} -> "enumerate"
                             [] c.name = "cache-extractor" -> IF c.url THEN "get" ELSE "extract"
                             [] OTHER -> "download"])
  /\ UNCHANGED outside

Work(j) ==
  /\ At(j, "idle") /\ works < MaxWorks /\ works' = works + 1 /\ now' = now + 1
  /\ \E f \in Files : tree' = [tree EXCEPT ![j][f] = now']
  /\ UNCHANGED <<cache, remote, artifacts, diskFull, proc>>

\* The job is stopped, or the machine is: temporary files stay where they are.
Killed(j) == ~At(j, "idle") /\ Fail(j) /\ UNCHANGED outside

\* --- fileArchiver ----------------------------------------------------------------
\* process: a match counts if it lives in the build directory and exists.
processed(j, match) == match \in Files /\ tree[j][match] > 0

\* What the paths match, "elsewhere" being a path out of the build directory, and
\* what git lists as untracked.
processPaths(j)     == {f \in call(j).paths : processed(j, f)}
processUntracked(j) == {f \in {"obj"} : call(j).untracked /\ processed(j, f)}

enumerate(j) ==
  /\ At(j, "enumerate")
  /\ Going(j, [proc[j] EXCEPT !.files = processPaths(j) \cup processUntracked(j),
                              !.at = IF call(j).name = "cache-archiver" THEN "check" ELSE "stream"])
  /\ UNCHANGED outside

\* isFileChanged: is some file newer than the archive, if there is one?
isFileChanged(j) ==
  cache = Nothing \/ \E f \in proc[j].files : cache.time < tree[j][f]

\* createZipEntry: only a file that is still there gets an entry.
createZipEntry(j, f) == tree[j][f] > 0

\* CreateZipArchive: the archive of the files, with its end or without: archive.Close
\* writes it, and nobody looks at the error, on a full disk for instance.
CreateZipArchive(j, time, whole) ==
  [files |-> [f \in Files |-> IF f \in proc[j].files /\ createZipEntry(j, f) THEN tree[j][f] ELSE 0],
   time |-> time, whole |-> whole]

\* --- cache-archiver ---------------------------------------------------------------
check(j) ==
  /\ At(j, "check")
  /\ IF isFileChanged(j) THEN Move(j, "zip") ELSE Succeed(j)
  /\ UNCHANGED outside

\* Variant of CreateZipFile: the archive is written in place.
CreateZipFileInPlace(j) ==
  /\ At(j, "zip")
  /\ \/ cache' = [Nothing EXCEPT !.time = now]
        /\ Going(j, [proc[j] EXCEPT !.at = "rename", !.temp = CreateZipArchive(j, now, TRUE)])
        /\ UNCHANGED diskFull
     \/ Fail(j) /\ UNCHANGED <<cache, diskFull>>
  /\ UNCHANGED <<now, works, tree, remote, artifacts>>

\* CreateZipFile writes a temporary file, which a failing entry removes again.
CreateZipFile(j) ==
  /\ At(j, "zip")
  /\ \/ \E w \in BOOLEAN :
          /\ Going(j, [proc[j] EXCEPT !.at = "rename", !.temp = CreateZipArchive(j, now, w)])
          /\ diskFull' = (diskFull \/ ~w)
     \/ Fail(j) /\ UNCHANGED diskFull
  /\ UNCHANGED <<now, works, tree, cache, remote, artifacts>>

\* The temporary file gets the cache's name.  The archiver then uploads it, if
\* there is a shared cache; the extractor extracts it.
Rename(j) ==
  /\ At(j, "rename")
  /\ LET made == call(j).name = "cache-archiver"
     IN  \/ /\ cache' = [proc[j].temp EXCEPT !.time = IF made THEN now + 1 ELSE @]
            /\ now' = IF made THEN now + 1 ELSE now
            /\ IF made /\ ~call(j).url THEN Succeed(j)
               ELSE Going(j, [proc[j] EXCEPT !.at = IF made THEN "put" ELSE "extract",
                                             !.temp = Nothing])
         \/ Fail(j) /\ UNCHANGED <<cache, now>>
  /\ UNCHANGED <<works, tree, remote, artifacts, diskFull>>

\* upload: the file is opened, and what was opened is sent, whatever the name
\* stands for by then.
open(j) ==
  /\ At(j, "put") /\ Going(j, [proc[j] EXCEPT !.at = "send", !.body = cache])
  /\ UNCHANGED outside

\* retryOnServerError: a 5xx, like no answer at all, is tried again; a 4xx is final.
retryOnServerError(j, again) == doRetry(j, again) \/ Fail(j)

\* Without an answer, the object may have been stored.
upload(j) ==
  /\ At(j, "send")
  /\ \/ remote' = [proc[j].body EXCEPT !.time = now] /\ (Succeed(j) \/ doRetry(j, "put"))
     \/ UNCHANGED remote /\ retryOnServerError(j, "put")
  /\ UNCHANGED <<now, works, tree, cache, artifacts, diskFull>>

\* --- cache-extractor ----------------------------------------------------------------
\* getCache: nothing there is final, like any other 4xx.
getCache(j) ==
  /\ At(j, "get")
  /\ \/ remote # Nothing /\ Going(j, [proc[j] EXCEPT !.at = "compare", !.body = remote])
     \/ retryOnServerError(j, "get")
  /\ UNCHANGED outside

\* checkIfUpToDate: the local file is kept unless the object is newer.
checkIfUpToDate(j) ==
  /\ At(j, "compare")
  /\ Move(j, IF cache # Nothing /\ proc[j].body.time <= cache.time THEN "extract" ELSE "copy")
  /\ UNCHANGED outside

\* The body is copied to a temporary file, which gets the object's time.
download(j) ==
  /\ At(j, "copy")
  /\ Going(j, [proc[j] EXCEPT !.at = "rename", !.temp = proc[j].body]) \/ doRetry(j, "get") \/ Fail(j)
  /\ UNCHANGED outside

\* extractZipFile: the file is removed and written again, with its time in the archive.
\* When that fails there is none, or still the old one.
extractZipFile(j, archive, f) ==
  IF archive.files[f] = 0 THEN {tree[j][f]} ELSE {archive.files[f], 0, tree[j][f]}

\* ExtractZipArchive: a file that could not be written is only warned about.
ExtractZipArchive(j, archive) ==
  /\ Going(j, [Succeeded(j) EXCEPT !.got = archive])
  /\ \E src \in extractZipFile(j, archive, "src"), obj \in extractZipFile(j, archive, "obj") :
       tree' = [tree EXCEPT ![j] = [src |-> src, obj |-> obj]]

\* ExtractZipFile: no file is no error for the cache; a broken one is.
ExtractZipFile(j) ==
  /\ At(j, "extract")
  /\ CASE cache = Nothing -> Succeed(j) /\ UNCHANGED tree
       [] cache.whole     -> ExtractZipArchive(j, cache)
       [] OTHER           -> Fail(j) /\ UNCHANGED tree
  /\ UNCHANGED <<now, works, cache, remote, artifacts, diskFull>>

\* --- artifacts-uploader ----------------------------------------------------------------
\* createReadStream: without files nothing is sent; a raw upload is one file.
createReadStream(j) ==
  /\ At(j, "stream")
  /\ CASE proc[j].files = {} -> Succeed(j)
       [] call(j).format = "raw" /\ Cardinality(proc[j].files) > 1 -> Fail(j)
       [] OTHER -> Going(j, [proc[j] EXCEPT !.at = "post",
                                            !.body = CreateZipArchive(j, 0, call(j).format # "raw")])
  /\ UNCHANGED outside

\* UploadRawArtifacts: an error while the archive is written breaks the request off.
\* Without a 201 the artifacts may still have been taken.
UploadRawArtifacts ==
  [state : {"UploadSucceeded"}, taken : {TRUE}] \cup [state : {"UploadFailed"}, taken : BOOLEAN]
    \cup [state : {"UploadForbidden", "UploadTooLarge"}, taken : {FALSE}]

createAndUpload(j) ==
  /\ At(j, "post")
  /\ \E r \in UploadRawArtifacts :
       /\ artifacts' = IF r.taken THEN [artifacts EXCEPT ![j] = proc[j].body] ELSE artifacts
       /\ CASE r.state = "UploadSucceeded" -> Succeed(j)
            [] r.state = "UploadFailed"    -> doRetry(j, "stream")
            [] OTHER                       -> Fail(j)
  /\ UNCHANGED <<now, works, tree, cache, remote, diskFull>>

\* --- artifacts-downloader -----------------------------------------------------------------
\* DownloadArtifacts: the artifacts of a job, "not found" if there are none.  A file that
\* cannot be copied whole is removed.
DownloadArtifacts(k) ==
  {"DownloadForbidden", "DownloadFailed",
   IF artifacts[k] = Nothing THEN "DownloadNotFound" ELSE "DownloadSucceeded"}

downloadArtifacts(j) ==
  /\ At(j, "download")
  /\ \E k \in Jobs : \E state \in DownloadArtifacts(k) :
       CASE state = "DownloadSucceeded" -> Going(j, [proc[j] EXCEPT !.at = "unzip", !.temp = artifacts[k]])
         [] state = "DownloadFailed"    -> doRetry(j, "download")
         [] OTHER                       -> Fail(j)
  /\ UNCHANGED outside

unzip(j) ==
  /\ At(j, "unzip")
  /\ IF proc[j].temp.whole THEN ExtractZipArchive(j, proc[j].temp) ELSE Fail(j) /\ UNCHANGED tree
  /\ UNCHANGED <<now, works, cache, remote, artifacts, diskFull>>

HelperNext ==
  \E j \in Jobs :
    \/ Begin(j) \/ Work(j) \/ Killed(j) \/ enumerate(j)
    \/ check(j) \/ CreateZipFile(j) \/ Rename(j) \/ open(j) \/ upload(j)
    \/ getCache(j) \/ checkIfUpToDate(j) \/ download(j) \/ ExtractZipFile(j)
    \/ createReadStream(j) \/ createAndUpload(j) \/ downloadArtifacts(j) \/ unzip(j)

(***************************************************************************)
(* Properties                                                              *)
(***************************************************************************)
\* However the jobs' commands interleave, and wherever one of them is killed, the
\* cache's file and its object are whole archives: each is written under another
\* name, or sent from a file that stays open.  Only a disk that was full when an
\* archive was closed spoils them.
CacheWhole ==
  ~diskFull => /\ cache = Nothing \/ cache.whole
               /\ remote = Nothing \/ remote.whole

\* A command that ends with success has done what it is for, however often it had
\* to try: an uploader with files to send has left exactly these at GitLab, and what
\* a downloader, or an extractor with a shared cache, has taken out is a whole
\* archive.
ExitHonest ==
  \A j \in Jobs : LET p == proc[j] IN
    p.at = "idle" /\ p.exit = "ok" =>
      /\ p.call.name = "artifacts-uploader" /\ p.files # {} =>
           {f \in Files : artifacts[j].files[f] > 0} = p.files
      /\ p.call.name = "artifacts-downloader" => p.got.whole
      /\ p.call.name = "cache-extractor" => (p.call.url => p.got.whole)
=============================================================================
