------------------------------ MODULE VaultMap ------------------------------
(***************************************************************************)
(* What the credential vault of internal/database/vault.go promises its    *)
(* callers: a map from instance ids to credentials on which Get, Put,      *)
(* Delete and List take effect atomically, once, between their call and    *)
(* their return.  An operation that returns an error had no effect.  A     *)
(* process that dies takes its pending calls with it; each of them had its *)
(* whole effect or none.                                                   *)
(***************************************************************************)

CONSTANTS
  Threads,   \* the goroutines that call the vault
  Ids,       \* instance ids, the keys of the map
  Creds,     \* credential entries
  NoCred     \* what the map holds for an id without an entry

VARIABLES
  store,     \* the map
  status,    \* status[t]: "idle", "pending" or "done"
  req,       \* req[t]: the operation t has called
  res        \* res[t]: what it will return, once done

absVars == <<store, status, req, res>>

(***************************************************************************)
(* The requests: Get and Delete name an id, Put an id and a credential,    *)
(* List nothing.  NoReq is what a goroutine outside the vault has asked.   *)
(***************************************************************************)
Requests ==
  [kind : {"get", "delete"}, id : Ids, cred : {NoCred}]
    \cup [kind : {"put"}, id : Ids, cred : Creds]
    \cup [kind : {"list"}, id : {NoCred}, cred : {NoCred}]

NoReq == [kind |-> "none", id |-> NoCred, cred |-> NoCred]

Maps == [Ids -> Creds \cup {NoCred}]
EmptyMap == [i \in Ids |-> NoCred]

(* The map an operation leaves behind: Get and List change nothing.        *)
Apply(r, m) ==
  CASE r.kind = "put"    -> [m EXCEPT ![r.id] = r.cred]
    [] r.kind = "delete" -> [m EXCEPT ![r.id] = NoCred]
    [] OTHER             -> m

(* What it returns: the entry (NoCred stands for os.ErrNotExist), the ids  *)
(* that have an entry, or "ok".                                            *)
Result(r, m) ==
  CASE r.kind = "get"  -> [tag |-> "entry", val |-> m[r.id]]
    [] r.kind = "list" -> [tag |-> "ids", val |-> {i \in Ids : m[i] # NoCred}]
    [] OTHER           -> [tag |-> "ok", val |-> {}]

Failed == [tag |-> "error", val |-> {}]
NoResult == [tag |-> "none", val |-> {}]

AbsInit ==
  /\ store = EmptyMap
  /\ status = [t \in Threads |-> "idle"]
  /\ req = [t \in Threads |-> NoReq]
  /\ res = [t \in Threads |-> NoResult]

AbsCall(t, r) ==
  /\ status[t] = "idle"
  /\ status' = [status EXCEPT ![t] = "pending"]
  /\ req' = [req EXCEPT ![t] = r]
  /\ UNCHANGED <<store, res>>

AbsCommit(t) ==
  /\ status[t] = "pending"
  /\ status' = [status EXCEPT ![t] = "done"]
  /\ store' = Apply(req[t], store)
  /\ res' = [res EXCEPT ![t] = Result(req[t], store)]
  /\ UNCHANGED req

AbsFail(t) ==
  /\ status[t] = "pending"
  /\ status' = [status EXCEPT ![t] = "done"]
  /\ res' = [res EXCEPT ![t] = Failed]
  /\ UNCHANGED <<store, req>>

AbsReturn(t) ==
  /\ status[t] = "done"
  /\ status' = [status EXCEPT ![t] = "idle"]
  /\ req' = [req EXCEPT ![t] = NoReq]
  /\ res' = [res EXCEPT ![t] = NoResult]
  /\ UNCHANGED store

AbsCrash(T) ==
  /\ status' = [t \in Threads |-> IF t \in T THEN "idle" ELSE status[t]]
  /\ req' = [t \in Threads |-> IF t \in T THEN NoReq ELSE req[t]]
  /\ res' = [t \in Threads |-> IF t \in T THEN NoResult ELSE res[t]]
  /\ UNCHANGED store

AbsNext ==
  \/ \E T \in SUBSET Threads : AbsCrash(T)
  \/ \E t \in Threads : AbsCommit(t) \/ AbsFail(t) \/ AbsReturn(t)
  \/ \E t \in Threads, r \in Requests : AbsCall(t, r)

AbsSpec == AbsInit /\ [][AbsNext]_absVars

=============================================================================
