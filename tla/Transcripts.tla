---------------------------- MODULE Transcripts ----------------------------
(* One account's conversations on their way from its own directory to the shared
   ~/.claude, and the pruning of the originals (internal/accounts/migrate.go, prune.go;
   the start of Serve in internal/httpserver/server.go; internal/cli/cmd_prune.go).

   A transcript is the set of the lines appended to it, all of one length, so its size
   is their number; a file that does not exist is empty.  Paths, modes, symbolic links
   and the caches prune also deletes are left out.
 *)
EXTENDS Naturals, FiniteSets

CONSTANTS
  Files,        \* the conversations
  MaxLines,     \* bound: lines written
  MaxTroubles,  \* bound: files that cannot be copied, restarts of the service
  Quiet,        \* nobody is in a conversation while a prune runs
  None          \* no conversation

VARIABLES
  own,      \* projects/ of the account's directory: [Files -> lines]
  shared,   \* ~/.claude/projects: [Files -> lines]
  written,  \* lines written so far
  credentialsOnly,  \* accounts.json: the account has been flipped
  copying,  \* MigrateManagedToShared: where it is, the files left, the one in hand
  pruning,  \* Prune with --yes, likewise
  troubles  \* troubles so far

vars == <<own, shared, written, credentialsOnly, copying, pruning, troubles>>

Resting == [at |-> "rest", todo |-> {}, file |-> None, size |-> 0, read |-> {}, failed |-> FALSE]
Size(lines) == Cardinality(lines)
Trouble == troubles < MaxTroubles /\ troubles' = troubles + 1
Present(dir) == {f \in Files : dir[f] # {}}

Init ==
  /\ own = [f \in Files |-> {}] /\ shared = [f \in Files |-> {}]
  /\ written = 0 /\ credentialsOnly = FALSE
  /\ copying = Resting /\ pruning = Resting /\ troubles = 0
-----------------------------------------------------------------------------
(* Conversations. *)

Write(f, dir) ==
  /\ written < MaxLines /\ written' = written + 1
  /\ Quiet => pruning = Resting
  /\ dir' = [dir EXCEPT ![f] = @ \cup {written + 1}]
  /\ UNCHANGED <<credentialsOnly, copying, pruning, troubles>>

(* "a shell opened before the flip keeps the old alias and goes on writing into the
   account's own projects/ for as long as it lives" (prune.go:66-68); one whose file
   was pruned away is taken to end. *)
OwnSession(f) ==
  /\ own[f] # {} \/ shared[f] = {}
  /\ Write(f, own) /\ UNCHANGED shared

(* After the flip the account runs in ~/.claude, where what was copied is resumed. *)
SharedSession(f) ==
  /\ credentialsOnly /\ shared[f] # {}
  /\ Write(f, shared) /\ UNCHANGED own
-----------------------------------------------------------------------------
(* MigrateManagedToShared, at every start of the service. *)

Copies(how) == copying' = how /\ UNCHANGED <<own, written, credentialsOnly, pruning>>

Migrate ==
  /\ copying = Resting /\ ~credentialsOnly
  /\ Copies([Resting EXCEPT !.at = "walk", !.todo = Present(own)])
  /\ UNCHANGED <<shared, troubles>>

copyProjectsTree(f) ==   \* what is in the shared tree already is skipped
  /\ copying.at = "walk" /\ f \in copying.todo
  /\ LET rest == [copying EXCEPT !.todo = @ \ {f}]
     IN Copies(IF shared[f] # {} THEN rest
               ELSE [rest EXCEPT !.at = "stat", !.file = f, !.size = Size(own[f])])
  /\ UNCHANGED <<shared, troubles>>

copyFile ==              \* copyFilePreservingMode: what is there now, or not at all
  /\ copying.at = "stat"
  /\ \/ Copies([copying EXCEPT !.at = "copied", !.read = own[copying.file]])
        /\ UNCHANGED troubles
     \/ Copies([copying EXCEPT !.at = "walk", !.failed = TRUE]) /\ Trouble
  /\ UNCHANGED shared

renameFile ==
  /\ copying.at = "copied"
  /\ shared' = [shared EXCEPT ![copying.file] = copying.read]
  /\ Copies([copying EXCEPT !.at = "after"])
  /\ UNCHANGED troubles

statAfter ==             \* one that has grown meanwhile counts as failed
  /\ copying.at = "after"
  /\ Copies([copying EXCEPT !.at = "walk",
                            !.failed = @ \/ Size(own[copying.file]) # copying.size])
  /\ UNCHANGED <<shared, troubles>>

Flip ==
  /\ copying.at = "walk" /\ copying.todo = {}
  /\ credentialsOnly' = (credentialsOnly \/ ~copying.failed)
  /\ copying' = Resting
  /\ UNCHANGED <<own, shared, written, pruning, troubles>>

Restart ==               \* a partial copy stays in a temporary file
  /\ copying # Resting /\ Trouble
  /\ Copies(Resting)
  /\ UNCHANGED shared
-----------------------------------------------------------------------------
(* Prune. *)

Prunes(how) == pruning' = how /\ UNCHANGED <<written, credentialsOnly, copying, troubles>>

Prune ==
  /\ pruning = Resting /\ credentialsOnly
  /\ Prunes([Resting EXCEPT !.at = "walk", !.todo = Present(own)])
  /\ UNCHANGED <<own, shared>>

(* A file that is missing or shorter in the shared tree is copied again. *)
shareProjects(f) ==
  /\ pruning.at = "walk" /\ f \in pruning.todo
  /\ LET rest == [pruning EXCEPT !.todo = @ \ {f}]
     IN Prunes(IF shared[f] # {} /\ Size(shared[f]) >= Size(own[f]) THEN rest
               ELSE [rest EXCEPT !.at = "copied", !.file = f, !.read = own[f]])
  /\ UNCHANGED <<own, shared>>

Replace ==
  /\ pruning.at = "copied"
  /\ shared' = [shared EXCEPT ![pruning.file] = pruning.read]
  /\ Prunes([pruning EXCEPT !.at = "walk"])
  /\ UNCHANGED own

CannotReplace ==         \* the account is left alone
  /\ pruning.at = "copied" /\ Trouble
  /\ pruning' = Resting
  /\ UNCHANGED <<own, shared, written, credentialsOnly, copying>>

RemoveAll ==
  /\ pruning.at = "walk" /\ pruning.todo = {}
  /\ own' = [f \in Files |-> {}]
  /\ Prunes(Resting)
  /\ UNCHANGED shared

Next ==
  \/ \E f \in Files : \/ OwnSession(f) \/ SharedSession(f)
                      \/ copyProjectsTree(f) \/ shareProjects(f)
  \/ Migrate \/ copyFile \/ renameFile \/ statAfter \/ Flip \/ Restart
  \/ Prune \/ Replace \/ CannotReplace \/ RemoveAll

Spec == Init /\ [][Next]_vars
-----------------------------------------------------------------------------
(* "Prune never removes what it could not duplicate" (prune.go:73-74): every line ever
   written is still in one of the two trees. *)
NothingLost ==
  UNION {own[f] \cup shared[f] : f \in Files} = 1..written
=============================================================================
