---------------------------- MODULE MptcpBindings ----------------------------
(***************************************************************************)
(* The variable binding store of packetdrill's MPTCP engine (mptcp.c,     *)
(* "var_queue functions" and "hashmap functions"): the FIFO of script     *)
(* variable names the parser queued (mp_state.vars_queue) and the map      *)
(* from a name to its value (mp_state.vars, a uthash table).              *)
(*                                                                         *)
(* A binding is either script defined (it owns a copy of the value the    *)
(* script gave the name) or engine made (it points into one of the two     *)
(* key slots of mp_state; reading it reads the slot as it is NOW).        *)
(* The only subtype the code ever stores is MP_CAPABLE, so the subtype    *)
(* tag is left out.                                                        *)
(***************************************************************************)
EXTENDS Sequences

CONSTANT NoVar     \* find_mp_var / find_next_key returning NULL

\* add_mp_var_script_defined: an owned copy of the script's value
ScriptVar(v) == [scriptDefined |-> TRUE, value |-> v]

\* add_mp_var_key: a pointer to the key slot "slot" of mp_state
KeyVar(slot) == [scriptDefined |-> FALSE, slot |-> slot]

\* add_mp_var: HASH_ADD_KEYPTR does not look for an existing entry; the new
\* entry goes to the head of its bucket, so HASH_FIND_STR finds it first.
AddMpVar(vs, name, var) == [vs EXCEPT ![name] = var]

\* find_mp_var: HASH_FIND_STR compares the whole string read up to its
\* '\0'; NoVar (NULL) when no entry has exactly that string.
FindMpVar(vs, name) == vs[name]

\* The test "var && subtype == MP_CAPABLE && script_defined" of
\* mptcp_gen_key and extract_and_set_kernel_key.
IsScriptDefined(vs, name) ==
    FindMpVar(vs, name) # NoVar /\ FindMpVar(vs, name).scriptDefined

\* *(u64*)var->value: an engine binding dereferences the slot it points to.
Deref(var, key) == IF var.scriptDefined THEN var.value ELSE key[var.slot]

\* dequeue_var: removes the front name (no effect on an empty queue).
DequeueVar(q) == IF q = <<>> THEN q ELSE Tail(q)

\* Mutant of FindNextKey: only script-defined bindings are returned.
FindNextKeyScriptOnly(q, vs, key) ==
    IF q = <<>> THEN NoVar
    ELSE IF ~IsScriptDefined(vs, Head(q)) THEN NoVar
    ELSE Deref(FindMpVar(vs, Head(q)), key)

\* find_next_key: pop the front name and return the key it is bound to,
\* NoVar when the queue is empty or the name is unbound.
FindNextKey(q, vs, key) ==
    IF q = <<>> THEN NoVar
    ELSE IF FindMpVar(vs, Head(q)) = NoVar THEN NoVar
    ELSE Deref(FindMpVar(vs, Head(q)), key)
==============================================================================
