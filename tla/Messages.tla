------------------------------ MODULE Messages ------------------------------
(***************************************************************************)
(* The messages that a local clone understands, and what becomes of one:   *)
(* the dispatch finds the handler of its class, and the handler runs git   *)
(* processes, or dispatches further messages.                              *)
(*                                                                         *)
(* A message is its class here.  A process is named for what its failure   *)
(* may mean: "write" is any that writes to the clone alone.  There is no   *)
(* state: Answers uses these operators.                                    *)
(***************************************************************************)

\* RepoProtocol: the messages that are answered with nothing, and those with data.
Command == {"Commit", "Connect", "Fetch", "Init", "Push", "SetOrigin", "ValidateRemote"}
Query == {"GetConfig", "GetFiles", "GetRefs", "ShowFile"}
Message == Command \cup Query

\* The messages a handler dispatches: handleConnect has no git process of its own.
Sends(message) == IF message = "Connect" THEN {"ValidateRemote", "SetOrigin"} ELSE {}

\* The git processes of each handler whose failure it lets through.
CommitRuns == {"write"}
FetchRuns == {"fetch"}
GetConfigRuns == {"config"}
InitRuns == {"write"}
PushRuns == {"push"}
SetOriginRuns == {"write"}
ShowFileRuns == {"show"}

\* `git ls-remote` and the two pushes of the permission check, and six processes between
\* them that work on the clone.
ValidateRemoteRuns == {"ls-remote", "write", "pushCheck"}

\* `git show` of the files; that the first process, `git ls-tree`, fails is only logged.
GetFilesRuns == {"show"}

\* handleGetRefs takes any failure for a clone without refs.
GetRefsRuns == {}

\* openBareRepo: the handler of each message.  That of Connect only dispatches.
Runs(message) ==
  CASE message = "Commit"         -> CommitRuns
    [] message = "Connect"        -> {}
    [] message = "Fetch"          -> FetchRuns
    [] message = "Init"           -> InitRuns
    [] message = "Push"           -> PushRuns
    [] message = "SetOrigin"      -> SetOriginRuns
    [] message = "ValidateRemote" -> ValidateRemoteRuns
    [] message = "GetFiles"       -> GetFilesRuns
    [] message = "GetRefs"        -> GetRefsRuns
    [] message = "GetConfig"      -> GetConfigRuns
    [] message = "ShowFile"       -> ShowFileRuns

\* messageDispatch: the processes of a message and of those that its handler dispatches.
Dispatched(message) == Runs(message) \cup UNION {Runs(m) : m \in Sends(message)}

\* DirectLocalClone and createBareRepo: the message of each operation on a clone.
MessageFor(operation) ==
  CASE operation = "create"      -> "Init"
    [] operation = "setOriginTo" -> "Connect"
    [] operation = "getOrigin"   -> "GetConfig"
    [] operation = "commit"      -> "Commit"
    [] operation = "fetch"       -> "Fetch"
    [] operation = "push"        -> "Push"
    [] operation = "branches"    -> "GetRefs"
    [] operation = "show"        -> "ShowFile"
=============================================================================
