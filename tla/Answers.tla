------------------------------ MODULE Answers ------------------------------
(***************************************************************************)
(* From what a git process says when it fails to the status of an HTTP     *)
(* response.                                                               *)
(*                                                                         *)
(* GitCommandError.for makes an error of the words; handleValidateRemote   *)
(* makes another of some errors; an error thrown in the worker crosses the *)
(* queue as the JSON of its class and properties; handleRepoErrors makes a *)
(* status of the class.  An error is its class here, and its JSON a record *)
(* that names the class.  There is no state: JobQueue uses these operators.*)
(***************************************************************************)
EXTENDS Sequences, Messages

CONSTANTS
  \* The words in the output of git that GitCommandError.for looks for:
  DenialWords,  \* the remote asks for credentials, or for single sign-on
  LockWords,    \* another process has the lock, or changed the shallow file
  PathWords     \* there is no such path

Words == DenialWords \cup LockWords \cup PathWords

ASSUME WordsAreDistinct ==
  /\ DenialWords \cap LockWords = {}
  /\ (DenialWords \cup LockWords) \cap PathWords = {}

----------------------------------------------------------------------------
(***************************************************************************)
(* Errors                                                                  *)
(***************************************************************************)
\* GitCommandError.for: the first match counts.
ErrorFor(stderr) ==
  IF stderr \cap DenialWords # {} THEN "AccessDenied"
  ELSE IF stderr \cap LockWords # {} THEN "LockedByAnotherProcess"
  ELSE IF stderr \cap PathWords # {} THEN "FileNotFound"
  ELSE "GitCommandError"

\* handleRemoteError.
RemoteErrorFor(error) == IF error = "AccessDenied" THEN error ELSE "InvalidRepoUrl"

\* Every class of error that comes up.  "BadRequest" is the error of a refused body;
\* "Error" is what dugite and Node's fs throw, and the code where it has no class of its
\* own; "ENOENT" is an Error of fs with that code.
Error == {"AccessDenied", "LockedByAnotherProcess", "FileNotFound", "GitCommandError",
          "InvalidRepoUrl", "NoSuchRepo", "RepoAlreadyExists", "BadRequest", "Error",
          "ENOENT"}

\* asSerializedError.
Serialized(error) == [type |-> error]

\* Mutant of Deserialized: the constructor that was added last is missing.
DeserializedWithoutLocks(envelope) ==
  IF envelope.type \in {"AccessDenied", "GitCommandError", "InvalidRepoUrl"}
  THEN envelope.type ELSE "Error"

\* What the server makes of it: an error of a class it was not given is an Error.
Deserialized(envelope) ==
  IF envelope.type \in {"AccessDenied", "Error", "GitCommandError", "InvalidRepoUrl",
                        "LockedByAnotherProcess"}
  THEN envelope.type ELSE "Error"

----------------------------------------------------------------------------
(***************************************************************************)
(* Steps                                                                   *)
(***************************************************************************)
\* A route takes some of these steps.  Those of the first line are jobs of the worker,
\* those of the second are operations on a clone.
JobName == {"setOriginTo", "fetch", "push"}
Operation == JobName \cup {"create", "getOrigin", "commit", "branches", "show"}
Step == Operation \cup {"exists", "find"}

\* The git processes that a step runs, as far as their failures differ.
Processes(step) == IF step \in Operation THEN Dispatched(MessageFor(step)) ELSE {}

\* What a process may say that somebody looks for.  One that talks to a remote passes
\* on whatever the remote says.
MaySay(process) ==
  CASE process = "write"  -> LockWords
    [] process = "show"   -> PathWords
    [] process = "config" -> {}
    [] OTHER              -> Words

\* The two processes whose errors go through handleRemoteError.
ChecksRemote(process) == process \in {"ls-remote", "pushCheck"}

\* The error that a step throws when one of its processes fails.
Raised(process, stderr) ==
  IF ChecksRemote(process) THEN RemoteErrorFor(ErrorFor(stderr)) ELSE ErrorFor(stderr)

\* The errors that a step throws without git: the repo has gone, or come, meanwhile;
\* the directory of all repos is missing, or the index file goes before it is unlinked;
\* there is a ref that RefName.parse does not know; Redis does not take the job.  That
\* there is no such repo is an error to some routes and an answer, nothing, to others.
Thrown(step) ==
  CASE step = "exists" -> {"nothing"}
    [] step = "find"   -> {"NoSuchRepo", "Error"}
    [] step = "create" -> {"RepoAlreadyExists", "Error", "ENOENT"}
    [] step = "commit" -> {"Error", "ENOENT"}
    [] OTHER           -> {"Error"}

\* How a step may fail.
Failures(step) ==
  (UNION {{[process |-> p, stderr |-> said, error |-> Raised(p, said)]
             : said \in SUBSET MaySay(p)} : p \in Processes(step)})
  \cup {[process |-> "none", stderr |-> {}, error |-> e] : e \in Thrown(step)}

----------------------------------------------------------------------------
(***************************************************************************)
(* Routes                                                                  *)
(***************************************************************************)
Route == {"postRepo", "putRepo", "postFetch", "postCommit", "getRepo", "getFile"}

\* The keys that the schema of a route wants in the body, if it has a schema.
Requires(route) ==
  CASE route \in {"postRepo", "putRepo"} -> {"remoteUrl"}
    [] route = "postCommit"              -> {"files", "author", "message"}
    [] OTHER                             -> {}

\* The steps a route may have to take.  The origin that a repo has already is not set
\* again: not even a new repo's, when another request has joined its creation and set it.
\* The repo of postRepo has an id that nobody knows yet.
Plans(route) ==
  CASE route = "postRepo"   -> {<<"create", "getOrigin", "setOriginTo">>}
    [] route = "putRepo"    -> {<<"create", "getOrigin", "setOriginTo">>,
                                <<"create", "getOrigin">>,
                                <<"find", "getOrigin", "setOriginTo">>,
                                <<"find", "getOrigin">>}
    [] route = "postFetch"  -> {<<"find", "fetch">>}
    [] route = "postCommit" -> {<<"find", "fetch", "commit", "push">>}
    [] route = "getRepo"    -> {<<"exists", "find", "branches">>}
    [] OTHER                -> {<<"exists", "find", "show">>}  \* getFile

\* What comes of a step that fails: handleShowFile takes a missing file for an answer.
ResultOf(step, error) ==
  IF step = "show" /\ error = "FileNotFound" THEN "nothing" ELSE error

\* QueryResult.from, and respond: foundNone, or foundOne.
QueryStatus(results) == IF results = {} THEN 404 ELSE 200

\* What each route does with a success.
SuccessStatus(route) ==
  CASE route = "postRepo"             -> 201
    [] route \in {"getRepo", "getFile"} -> QueryStatus({"found"})
    [] OTHER                          -> 200

\* Koa has a status of its own for the errors that no handler turns into one, and those
\* that name theirs.
UnhandledStatus(error) ==
  CASE error = "ENOENT"     -> 404
    [] error = "BadRequest" -> 400
    [] OTHER                -> 500

\* handleRepoErrors.  A 429 says to retry after 60 seconds.
ErrorStatus(error) ==
  CASE error = "AccessDenied"           -> 403
    [] error = "InvalidRepoUrl"         -> 400
    [] error = "LockedByAnotherProcess" -> 429
    [] OTHER                            -> UnhandledStatus(error)

\* The status of the response.  The route of a file has no handleRepoErrors.
StatusFor(route, result) ==
  CASE result = "ok"      -> SuccessStatus(route)
    [] result = "nothing" -> QueryStatus({})
    [] OTHER -> IF route = "getFile" THEN UnhandledStatus(result) ELSE ErrorStatus(result)

Status == {200, 201, 400, 403, 404, 429, 500}
=============================================================================
