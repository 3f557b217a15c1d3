---------------------------- MODULE PathResolver ----------------------------
(***************************************************************************)
(* _resolve_system_paths of code_correlation/internal/packages_resolver.py:*)
(* the directories of sys.path, resolved once for each content of it.      *)
(* The program changes sys.path as it likes.  A directory stands for       *)
(* itself resolved.                                                        *)
(***************************************************************************)
CONSTANTS Threads, Dirs,
          FirstPath,       \* sys.path as the program starts
          NoThread         \* nobody holds the lock

(* hash(()) is not None: the empty path cannot be taken for a hit.         *)
NoHash == {"never hashed"}

ASSUME PathAssumption == FirstPath \subseteq Dirs /\ NoThread \notin Threads /\ ~(NoHash \subseteq Dirs)

VARIABLES
  path,        \* sys.path
  hash,        \* _sys_path_hash, as the content that was hashed
  resolved,    \* _resolved_sys_path
  lock,        \* _sys_path_lock
  step,        \* of the call that each thread is in
  known,       \* its current_hash
  paths        \* the list that it builds or is given

(* History.                                                                *)
VARIABLES
  shrunk,      \* a directory left sys.path since the thread took its "hash",
               \* or began the "list"; "no" if none did
  torn         \* one did before the last list was complete

resolverVars == <<path, hash, resolved, lock, step, known, paths, shrunk, torn>>

ResolverInit ==
  /\ path = FirstPath
  /\ hash = NoHash
  /\ resolved = {}
  /\ lock = NoThread
  /\ step = [t \in Threads |-> "idle"]
  /\ known = [t \in Threads |-> {}]
  /\ paths = [t \in Threads |-> {}]
  /\ shrunk = [t \in Threads |-> "no"]
  /\ torn = FALSE

Go(t, from, to) == step[t] = from /\ step' = [step EXCEPT ![t] = to]

(* The program, at any moment, goes on to import from more directories ... *)
Insert(dirs) ==
  /\ path' = path \cup dirs
  /\ UNCHANGED <<hash, resolved, lock, step, known, paths, shrunk, torn>>

(* ... and takes some away.                                                *)
Shrunk(t) ==
  CASE step[t] \in {"compare", "lock", "check"} -> "hash"
    [] step[t] = "collect" -> "list"
    [] OTHER -> shrunk[t]

Remove(dirs) ==
  /\ dirs \cap path # {}
  /\ path' = path \ dirs
  /\ shrunk' = [t \in Threads |-> Shrunk(t)]
  /\ UNCHANGED <<hash, resolved, lock, step, known, paths, torn>>

Ask(t) ==
  /\ Go(t, "idle", "compare")
  /\ known' = [known EXCEPT ![t] = path]
  /\ UNCHANGED <<path, hash, resolved, lock, paths, shrunk, torn>>

(* The first look, without the lock.                                       *)
Compare(t) ==
  /\ Go(t, "compare", IF known[t] = hash THEN "read" ELSE "lock")
  /\ UNCHANGED <<path, hash, resolved, lock, known, paths, shrunk, torn>>

(* Mutant: nobody waits for the lock.                                      *)
AcquireAnyway(t) ==
  /\ lock' = t
  /\ Go(t, "lock", "check")
  /\ UNCHANGED <<path, hash, resolved, known, paths, shrunk, torn>>

Acquire(t) ==
  /\ lock = NoThread
  /\ lock' = t
  /\ Go(t, "lock", "check")
  /\ UNCHANGED <<path, hash, resolved, known, paths, shrunk, torn>>

(* Another thread was first.                                               *)
Same(t) ==
  /\ known[t] = hash
  /\ Go(t, "check", "read")
  /\ lock' = NoThread
  /\ UNCHANGED <<path, hash, resolved, known, paths, shrunk, torn>>

(* The walk along sys.path begins ...                                      *)
Store(t) ==
  /\ known[t] # hash
  /\ Go(t, "check", "collect")
  /\ hash' = known[t]
  /\ paths' = [paths EXCEPT ![t] = path]
  /\ UNCHANGED <<path, resolved, lock, known, shrunk, torn>>

(* ... and ends.  It may meet directories that came meanwhile; when one is *)
(* taken away under it, it may pass over any.                              *)
Collect(t) ==
  /\ Go(t, "collect", "assign")
  /\ \E dirs \in SUBSET (paths[t] \cup path) :
       /\ shrunk[t] # "list" => paths[t] \subseteq dirs
       /\ paths' = [paths EXCEPT ![t] = dirs]
  /\ UNCHANGED <<path, hash, resolved, lock, known, shrunk, torn>>

(* Mutant: the lock is not left when there was something to do.            *)
AssignKeeps(t) ==
  /\ Go(t, "assign", "read")
  /\ resolved' = paths[t]
  /\ torn' = (shrunk[t] # "no")
  /\ UNCHANGED <<path, hash, lock, known, paths, shrunk>>

Assign(t) ==
  /\ Go(t, "assign", "read")
  /\ resolved' = paths[t]
  /\ lock' = NoThread
  /\ torn' = (shrunk[t] # "no")
  /\ UNCHANGED <<path, hash, known, paths, shrunk>>

Read(t) ==
  /\ Go(t, "read", "back")
  /\ paths' = [paths EXCEPT ![t] = resolved]
  /\ shrunk' = [shrunk EXCEPT ![t] = "no"]
  /\ UNCHANGED <<path, hash, resolved, lock, known, torn>>

Return(t) ==
  /\ Go(t, "back", "idle")
  /\ UNCHANGED <<path, hash, resolved, lock, known, paths, shrunk, torn>>

Inside(t) == Compare(t) \/ Acquire(t) \/ Same(t) \/ Store(t) \/ Collect(t) \/ Assign(t) \/ Read(t)

ResolverNext ==
  \/ \E dirs \in SUBSET Dirs : Insert(dirs) \/ Remove(dirs)
  \/ \E t \in Threads : Ask(t) \/ Inside(t) \/ Return(t)

ResolverSpec == ResolverInit /\ [][ResolverNext]_resolverVars

-----------------------------------------------------------------------------
Steps == {"idle", "compare", "lock", "check", "collect", "assign", "read", "back"}

ResolverTypeOK ==
  /\ path \subseteq Dirs
  /\ hash \in (SUBSET Dirs) \cup {NoHash}
  /\ resolved \subseteq Dirs
  /\ lock \in Threads \cup {NoThread}
  /\ step \in [Threads -> Steps]
  /\ known \in [Threads -> SUBSET Dirs]
  /\ paths \in [Threads -> SUBSET Dirs]
  /\ shrunk \in [Threads -> {"no", "hash", "list"}] /\ torn \in BOOLEAN

(* As long as nobody rebuilds the list it holds every directory that was   *)
(* in sys.path when the hash beside it was taken, and a hit on the fast    *)
(* path misses none: although hash and list are two assignments, the hash  *)
(* is taken before the lock, several threads may be about to rebuild, and  *)
(* sys.path may have grown by the time the list is built.  Not so if a     *)
(* directory was taken out of sys.path between that hash and the end of    *)
(* that list: when it is put back, the list lacks it and the hash is a hit.*)
(* (While the lock is held this fails too: hash and list are assigned in   *)
(* the wrong order for readers without the lock.)                          *)
NotBehind == lock = NoThread /\ hash # NoHash /\ ~torn => hash \subseteq resolved
=============================================================================
