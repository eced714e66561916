-------------------------- MODULE ProbeStateStore --------------------------
(***************************************************************************)
(* write_temporal_probe_state (scripts/temporal_probe_state_store.py): one *)
(* file of the probe-state directory and the calls that write it.  The     *)
(* file's name comes from sort, offset, hits and capture time, so calls    *)
(* with different identifier lists meet at the same name.  A file found    *)
(* with the same content is success, one with another content a conflict;  *)
(* otherwise the call takes a lock file, writes a uniquely named temporary *)
(* file, moves it into place, reads it back and, when that fails, removes  *)
(* it again.                                                               *)
(*                                                                         *)
(* What the finally block undoes depends on variables set on the way: the  *)
(* lock's path is set before the attempt to create it, so a call that      *)
(* finds the lock taken removes it like one that took it.                  *)
(***************************************************************************)
EXTENDS Naturals

CONSTANTS
  Workers,  \* processes that make one call at a time
  Contents, \* serialized states with one and the same filename
  Absent,   \* there is no file
  MaxCalls, \* bound: calls made in all
  MaxErrors \* bound: errors of the file system and deaths

ASSUME ContentAssumption == Absent \notin Contents

ASSUME BoundAssumption == {MaxCalls, MaxErrors} \subseteq Nat

VARIABLES
  final,    \* the content of the file, or Absent
  lock,     \* the lock file exists
  place,       \* the access a call makes next
  content,  \* what that call writes
  success,  \* whether it will report success
  acknowledged, \* history: contents some call reported success for
  calls, errors

storeVars == <<final, lock, place, content, success, acknowledged, calls, errors>>

Locations ==
  {"idle",
   "look",    \* final_path.exists()
   "compare", \* an existing file is read
   "lock",    \* the lock file is created exclusively
   "recheck", \* final_path.exists(), under the lock
   "write",   \* the temporary file is written
   "replace", \* os.replace
   "verify",  \* the file is read back
   "withdraw", \* created_final_path.unlink(): the read-back failed
   "unlock"}  \* lock_path.unlink()

Goto(w, location) == place' = [place EXCEPT ![w] = location]

\* The call returns; success is acknowledged to the caller.
Return(w, succeeded) ==
  /\ Goto(w, "idle")
  /\ success' = [success EXCEPT ![w] = FALSE]
  /\ acknowledged' = IF succeeded THEN acknowledged \cup {content[w]}
                                  ELSE acknowledged

-----------------------------------------------------------------------------

Call(w, c) ==
  /\ place[w] = "idle"
  /\ calls < MaxCalls
  /\ calls' = calls + 1
  /\ content' = [content EXCEPT ![w] = c]
  /\ Goto(w, "look")
  /\ UNCHANGED <<final, lock, success, acknowledged, errors>>

Look(w) ==
  /\ place[w] = "look"
  /\ Goto(w, IF final = Absent THEN "lock" ELSE "compare")
  /\ UNCHANGED <<final, lock, content, success, acknowledged, calls, errors>>

\* Defect: a file of that name is taken for the state.
CompareNameOnly(w) ==
  /\ place[w] = "compare"
  /\ Return(w, final # Absent)
  /\ UNCHANGED <<final, lock, content, calls, errors>>

\* Same content is idempotent success and another one STATE_CONFLICT; a file
\* that is gone by now is an internal error.  The lock is not involved.
Compare(w) ==
  /\ place[w] = "compare"
  /\ Return(w, final = content[w])
  /\ UNCHANGED <<final, lock, content, calls, errors>>

\* CONCURRENT_WRITE_CONFLICT goes on to the finally block, lock_path set.
Lock(w) ==
  /\ place[w] = "lock"
  /\ lock' = TRUE
  /\ Goto(w, IF lock THEN "unlock" ELSE "recheck")
  /\ UNCHANGED <<final, content, success, acknowledged, calls, errors>>

Recheck(w) ==
  /\ place[w] = "recheck"
  /\ Goto(w, IF final = Absent THEN "write" ELSE "unlock")
  /\ UNCHANGED <<final, lock, content, success, acknowledged, calls, errors>>

\* The temporary name is unique, so no other call ever meets the file.
Write(w) ==
  /\ place[w] = "write"
  /\ Goto(w, "replace")
  /\ UNCHANGED <<final, lock, content, success, acknowledged, calls, errors>>

Replace(w) ==
  /\ place[w] = "replace"
  /\ final' = content[w]
  /\ Goto(w, "verify")
  /\ UNCHANGED <<lock, content, success, acknowledged, calls, errors>>

Verify(w) ==
  /\ place[w] = "verify"
  /\ success' = [success EXCEPT ![w] = final = content[w]]
  /\ Goto(w, IF final = content[w] THEN "unlock" ELSE "withdraw")
  /\ UNCHANGED <<final, lock, content, acknowledged, calls, errors>>

\* Whatever file is there by now.
Withdraw(w) ==
  /\ place[w] = "withdraw"
  /\ final' = Absent
  /\ Goto(w, "unlock")
  /\ UNCHANGED <<lock, content, success, acknowledged, calls, errors>>

\* Whosever lock is there by now; an absent one is no error.
Unlock(w) ==
  /\ place[w] = "unlock"
  /\ lock' = FALSE
  /\ Return(w, success[w])
  /\ UNCHANGED <<final, content, calls, errors>>

-----------------------------------------------------------------------------

Error ==
  /\ errors < MaxErrors
  /\ errors' = errors + 1

\* INTERNAL_STORE_ERROR before lock_path is set.
LookFails(w) ==
  /\ Error
  /\ place[w] \in {"look", "compare"}
  /\ Return(w, FALSE)
  /\ UNCHANGED <<final, lock, content, calls>>

\* INTERNAL_STORE_ERROR with lock_path set, and nothing to withdraw.
WriteFails(w) ==
  /\ Error
  /\ place[w] \in {"lock", "recheck", "write", "replace"}
  /\ Goto(w, "unlock")
  /\ UNCHANGED <<final, lock, content, success, acknowledged, calls>>

\* Defect: a file that cannot be read back counts as written.
VerifyFailsOpen(w) ==
  /\ Error
  /\ place[w] = "verify"
  /\ success' = [success EXCEPT ![w] = TRUE]
  /\ Goto(w, "withdraw")
  /\ UNCHANGED <<final, lock, content, acknowledged, calls>>

VerifyFails(w) ==
  /\ Error
  /\ place[w] = "verify"
  /\ Goto(w, "withdraw")
  /\ UNCHANGED <<final, lock, content, success, acknowledged, calls>>

\* An unlink that fails is passed over, and the result stands.
WithdrawFails(w) ==
  /\ Error
  /\ place[w] = "withdraw"
  /\ Goto(w, "unlock")
  /\ UNCHANGED <<final, lock, content, success, acknowledged, calls>>

UnlockFails(w) ==
  /\ Error
  /\ place[w] = "unlock"
  /\ Return(w, success[w])
  /\ UNCHANGED <<final, lock, content, calls>>

\* The process dies; what it would have reported is never heard.
Crash(w) ==
  /\ Error
  /\ place[w] # "idle"
  /\ Return(w, FALSE)
  /\ UNCHANGED <<final, lock, content, calls>>

-----------------------------------------------------------------------------

StoreInit ==
  /\ final \in Contents \cup {Absent}
  /\ lock = FALSE
  /\ place = [w \in Workers |-> "idle"]
  /\ content \in [Workers -> Contents]
  /\ success = [w \in Workers |-> FALSE]
  /\ acknowledged = {}
  /\ calls = 0
  /\ errors = 0

StoreNext ==
  \E w \in Workers :
    \/ \E c \in Contents : Call(w, c)
    \/ Look(w) \/ Compare(w) \/ Lock(w) \/ Recheck(w) \/ Write(w)
    \/ Replace(w) \/ Verify(w) \/ Withdraw(w) \/ Unlock(w)
    \/ LookFails(w) \/ WriteFails(w) \/ VerifyFails(w) \/ WithdrawFails(w)
    \/ UnlockFails(w) \/ Crash(w)

StoreSpec == StoreInit /\ [][StoreNext]_storeVars

-----------------------------------------------------------------------------
(* Properties *)

\* A filename is given to one content: no two calls that carried different
\* contents are both told that theirs is stored.
OneContentAcknowledged == \A c, d \in acknowledged : c = d

\* What a caller was told is stored stays stored, through later calls,
\* errors and deaths, when calls for a name follow one another.
AcknowledgedStays == \A c \in acknowledged : final = c

-----------------------------------------------------------------------------
(* Why they hold when calls for a name follow one another *)

\* A call for the name begins when the one before has returned or died.
Serial == \A v, w \in Workers : place[v] # "idle" /\ place[w] # "idle" => v = w

StoreTypeOK ==
  /\ final \in Contents \cup {Absent}
  /\ lock \in BOOLEAN
  /\ place \in [Workers -> Locations]
  /\ content \in [Workers -> Contents]
  /\ success \in [Workers -> BOOLEAN]
  /\ acknowledged \subseteq Contents
  /\ calls \in Nat /\ errors \in Nat

\* A call that is going to write has found no file, so nothing has been
\* acknowledged; until it reports, the file is its own or withdrawn.
Writing(w) ==
  /\ place[w] \in {"write", "replace"} => final = Absent
  /\ place[w] = "verify" => final = content[w]
  /\ place[w] \in {"verify", "withdraw"} => acknowledged = {}
  /\ success[w] => place[w] = "unlock" /\ final = content[w]

\* An invariant of StoreSpec /\ []Serial.
StoreInv ==
  /\ StoreTypeOK
  /\ AcknowledgedStays
  /\ \A w \in Workers : Writing(w)

=============================================================================
