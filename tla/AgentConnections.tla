-------------------------- MODULE AgentConnections --------------------------
(***************************************************************************)
(* `teale connections` (cli/src/connections): adding Teale to the          *)
(* configuration of a coding agent, with a receipt, removing it again, and *)
(* recovering from an interrupted transaction (transaction.rs).            *)
(*                                                                         *)
(* The environment is the user, who edits or deletes configurations at any *)
(* moment without taking the lock, crashes of the command, and file        *)
(* operations that fail.  A configuration is a function from the keys it   *)
(* has to who set them; a command that is refused for its arguments        *)
(* changes nothing and is not a step.                                      *)
(***************************************************************************)
EXTENDS Integers, Sequences, TLC

CONSTANTS None,
          Harnesses,    \* of "opencode", "claude-code", "hermes", "codex"
          Configs,      \* configuration files; a receipt's file is its harness
          Originals,    \* what the files hold at first, None if absent
          Unparsable,   \* a file that is not in the harness's syntax
          Procs,        \* concurrent invocations of the command
          MaxEdits, MaxCrashes   \* bounds

VARIABLES disk,      \* the configurations and the receipts
          journal,   \* journal.json
          lock,      \* holder of the advisory lock
          pc, changes, at,
          base,      \* ghost: what the user last put in each configuration
          edited,    \* ghost: configurations edited since a transaction checked them
          raced,     \* ghost: configurations edited between a check and its write
          edits, crashes

ghosts == <<base, edited, raced>>
vars == <<disk, journal, lock, pc, changes, at, ghosts, edits, crashes>>

Init ==
    /\ disk = Originals @@ [h \in Harnesses |-> None]
    /\ journal = None /\ lock = None
    /\ pc = [p \in Procs |-> "idle"]
    /\ changes = [p \in Procs |-> <<>>]
    /\ at = [p \in Procs |-> 0]
    /\ base = Originals /\ edited = {} /\ raced = {}
    /\ edits = 0 /\ crashes = 0

(***************************************************************************)
(* What each harness's document refuses and gets (document.rs, edits).     *)
(* "provider" is the key when its value is not an object, and so on.       *)
(***************************************************************************)
Refused(h, set_model) ==
    CASE h = "opencode" -> {"provider", "provider.teale"}
      [] h = "claude-code" -> {"provider", "provider.teale", "env", "env.base_url", "env.auth",
                               "env.api_key", "env.use_bedrock", "apiKeyHelper"}
      [] h = "hermes" -> {"providers", "model", "providers.teale"}
      [] h = "codex" -> {"model_providers", "profiles", "model_providers.teale", "profiles.teale"}
                        \cup (IF set_model THEN {"profile"} ELSE {})

Edits(h, set_model) ==
    CASE h = "opencode" -> {"provider.teale"} \cup (IF set_model THEN {"model"} ELSE {})
      [] h = "claude-code" -> {"env.base_url", "env.auth", "env.discovery", "model"}
      [] h = "hermes" ->
            {"providers.teale"} \cup (IF set_model THEN {"model.provider", "model.default"} ELSE {})
      [] h = "codex" ->
            {"model_providers.teale", "profiles.teale"}
            \cup (IF set_model THEN {"model_provider", "model", "model_context_window"} ELSE {})

\* An absent file counts as an empty document.
Source(c) == IF disk[c] = None THEN <<>> ELSE disk[c]

Projects(h, c, set_model) ==
    /\ Source(c) # Unparsable
    /\ Refused(h, set_model) \cap DOMAIN Source(c) = {}

project(h, c, set_model) == [k \in Edits(h, set_model) |-> "teale"] @@ Source(c)

(***************************************************************************)
(* The commands: the lock, then what is read before apply.                 *)
(***************************************************************************)
Change(path, before, after) == [path |-> path, before |-> before, after |-> after]

Acquire(p) == lock = None /\ lock' = p

require_clean == journal = None

Begin(p, label, todo) ==
    /\ pc[p] = "idle"
    /\ pc' = [pc EXCEPT ![p] = label]
    /\ changes' = [changes EXCEPT ![p] = todo]
    /\ UNCHANGED <<disk, journal, at, ghosts, edits, crashes>>

Add(p, h, c, set_model) ==
    LET change == Change(c, disk[c], project(h, c, set_model))
    IN  /\ require_clean
        /\ h = "claude-code" => set_model
        /\ disk[h] = None
        /\ Projects(h, c, set_model)
        /\ Acquire(p)
        /\ Begin(p, "check", <<change, Change(h, None, change)>>)

Remove(p, h) ==
    /\ require_clean
    /\ disk[h] # None
    /\ Acquire(p)
    /\ Begin(p, "check", <<Change(disk[h].path, disk[h].after, disk[h].before),
                           Change(h, disk[h], None)>>)

Recover(p) == Acquire(p) /\ Begin(p, "rollback", <<>>)

\* The lock goes with the process, however it ends.
Ended(p) ==
    /\ lock' = IF lock = p THEN None ELSE lock
    /\ pc' = [pc EXCEPT ![p] = "idle"]
    /\ changes' = [changes EXCEPT ![p] = <<>>]
    /\ at' = [at EXCEPT ![p] = 0]

Goto(p, label, i) ==
    /\ pc' = [pc EXCEPT ![p] = label]
    /\ at' = [at EXCEPT ![p] = i]
    /\ UNCHANGED <<lock, changes>>

(***************************************************************************)
(* apply.  A write may fail before the rename or, syncing, after it.       *)
(***************************************************************************)
Now(p) == changes[p][at[p]]
write_atomic(path, value) == disk' = [disk EXCEPT ![path] = value]

Check(p) ==
    /\ pc[p] = "check"
    /\ IF require_clean /\ \A i \in DOMAIN changes[p] : disk[changes[p][i].path] = changes[p][i].before
       THEN Goto(p, "journal", 0) ELSE Ended(p)
    /\ edited' = {}
    /\ UNCHANGED <<disk, journal, base, raced, edits, crashes>>

WriteJournal_Late(p) ==
    /\ pc[p] = "journal" /\ Goto(p, "apply", 1)
    /\ UNCHANGED <<disk, journal, ghosts, edits, crashes>>

WriteJournal(p) ==
    /\ pc[p] = "journal"
    /\ \/ journal' = changes[p] /\ Goto(p, "apply", 1)
       \/ journal' \in {None, changes[p]} /\ Ended(p)
    /\ UNCHANGED <<disk, ghosts, edits, crashes>>

\* Is the file still as it was read; if so it is written next.
Compare(p) ==
    /\ pc[p] = "apply"
    /\ IF disk[Now(p).path] = Now(p).before
       THEN Goto(p, "write", at[p]) ELSE Goto(p, "rollback", 0)
    /\ UNCHANGED <<disk, journal, ghosts, edits, crashes>>

Write(p) ==
    /\ pc[p] = "write"
    /\ \/ /\ write_atomic(Now(p).path, Now(p).after)
          /\ IF at[p] < Len(changes[p]) THEN Goto(p, "apply", at[p] + 1) ELSE Goto(p, "commit", 0)
       \/ write_atomic(Now(p).path, Now(p).after) /\ Goto(p, "rollback", 0)
       \/ UNCHANGED disk /\ Goto(p, "rollback", 0)
    /\ UNCHANGED <<journal, ghosts, edits, crashes>>

\* The journal is removed, unless that fails.
Commit(p) ==
    /\ pc[p] = "commit"
    /\ journal' \in {None, journal}
    /\ Ended(p)
    /\ UNCHANGED <<disk, ghosts, edits, crashes>>

(***************************************************************************)
(* recover, of the command and of an apply that failed.                    *)
(***************************************************************************)
Recognised(c) == disk[c.path] \in {c.before, c.after}

\* Every file is looked at before any is touched.
Validate(p) ==
    /\ pc[p] = "rollback"
    /\ IF journal = None \/ \E i \in DOMAIN journal : ~Recognised(journal[i])
       THEN Ended(p)
       ELSE /\ pc' = [pc EXCEPT ![p] = "undo"]
            /\ changes' = [changes EXCEPT ![p] = journal]
            /\ at' = [at EXCEPT ![p] = Len(journal)]
            /\ UNCHANGED lock
    /\ UNCHANGED <<disk, journal, ghosts, edits, crashes>>

\* The last change first.
CompareUndo(p) ==
    /\ pc[p] = "undo"
    /\ IF at[p] = 0 THEN Goto(p, "commit", 0)
       ELSE IF disk[Now(p).path] = Now(p).before THEN Goto(p, "undo", at[p] - 1)
       ELSE IF disk[Now(p).path] = Now(p).after THEN Goto(p, "unwrite", at[p])
       ELSE Ended(p)
    /\ UNCHANGED <<disk, journal, ghosts, edits, crashes>>

Undo(p) ==
    /\ pc[p] = "unwrite"
    /\ \/ write_atomic(Now(p).path, Now(p).before) /\ Goto(p, "undo", at[p] - 1)
       \/ write_atomic(Now(p).path, Now(p).before) /\ Ended(p)
       \/ UNCHANGED disk /\ Ended(p)
    /\ UNCHANGED <<journal, ghosts, edits, crashes>>

Crash(p) ==
    /\ pc[p] # "idle" /\ crashes < MaxCrashes
    /\ crashes' = crashes + 1
    /\ Ended(p)
    /\ UNCHANGED <<disk, journal, ghosts, edits>>

\* The user saves something new, or deletes the file.
UserEdits(c) ==
    /\ edits < MaxEdits /\ edits' = edits + 1
    /\ \E value \in {None, ("user" :> edits + 1) @@ (IF Source(c) = Unparsable THEN <<>> ELSE Source(c))} :
          /\ value # disk[c]
          /\ disk' = [disk EXCEPT ![c] = value]
          /\ base' = [base EXCEPT ![c] = value]
    /\ edited' = edited \cup {c}
    /\ raced' = IF \E p \in Procs : pc[p] \in {"write", "unwrite"} /\ Now(p).path = c
                THEN raced \cup {c} ELSE raced
    /\ UNCHANGED <<journal, lock, pc, changes, at, crashes>>

Commands(p) ==
    \/ \E h \in Harnesses : Remove(p, h)
    \/ \E h \in Harnesses, c \in Configs, set_model \in BOOLEAN : Add(p, h, c, set_model)
    \/ Recover(p)

Steps(p) ==
    \/ Check(p) \/ WriteJournal(p) \/ Compare(p) \/ Write(p) \/ Commit(p)
    \/ Validate(p) \/ CompareUndo(p) \/ Undo(p)

Next ==
    \/ \E p \in Procs : Commands(p) \/ Steps(p) \/ Crash(p)
    \/ \E c \in Configs : UserEdits(c)

Spec == Init /\ [][Next]_vars

Owners(c) == {h \in Harnesses : disk[h] # None /\ disk[h].path = c}

\* Whatever commands crash, fail, are recovered and are repeated: without a
\* pending journal a configuration is what the user last put there, or what
\* a connection whose receipt exists made of it.  With one, every file is in
\* one of the two states recover accepts, unless the user edited it since.
\* Only an edit between a check and its rename is outside this.
Reversible ==
    IF journal = None
    THEN \A c \in Configs \ raced :
            \/ disk[c] = base[c]
            \/ \E h \in Owners(c) : disk[c] = disk[h].after
    ELSE \A i \in DOMAIN journal : journal[i].path \in edited \cup raced \/ Recognised(journal[i])

=============================================================================
