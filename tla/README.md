# TLA+ models of packetdrill's MPTCP option engine

This directory models `src/packetdrill/gtests/net/packetdrill/mptcp.c`. That file is the part of packetdrill that rewrites MPTCP TCP options in script packets:

- In an **inbound** packet (script → kernel under test), it fills in the keys, nonces, tokens, HMACs and sequence numbers that packetdrill *sends*.
- In an **outbound** packet (kernel → script), it fills in the values packetdrill *expects*. It learns what it needs from the live packet the kernel sent.

## 1. The system and its parts

| Part (spec.md §4) | Code in mptcp.c | Module |
|---|---|---|
| A. Variable binding store: the FIFO of script key names (`vars_queue`) and the name → value map (`vars`, uthash) | `enqueue_var` … `find_next_key` (49-151) | `MptcpBindings` |
| B. Subflow table: `mp_state.subflows`, a singly linked list with new entries prepended | `new_subflow_inbound/outbound`, `find_*` (186-293) | `MptcpEngine` |
| C. Session state: both keys and their "set" flags, `initial_dsn`, `initial_dack`, `last_packetdrill_addr_id` | `init_mp_state`, `set_*_key` | `MptcpEngine` |
| D. Crypto and byte order: SHA-1 token and IDSN, HMAC-SHA1, `htonl`/`htobe64` | outside `src/` | `MptcpCrypto` (modelled from the spec) |
| E. Option rewriter: the MP_CAPABLE, MP_JOIN and DSS handlers and the option loop | 325-833 | `MptcpEngine` |
| Example runners `run_test.sh`, `src/unnamed/part_000` | shell | not modelled |

How the parts interact:

1. packetdrill parses the whole script first.
   - Each `<name>` key token is queued.
   - Each name the script gives a value is bound to an owned copy of that value.
2. It then runs the packets in order.
3. The MP_CAPABLE handlers take key names from the front of the queue:
   - `mptcp_gen_key` and `extract_and_set_kernel_key` *peek* at the front name.
   - If that name is unbound, they bind it to a **pointer into a key slot** of `mp_state`.
   - `find_next_key` then pops the name and dereferences the binding.
   - A binding to a slot therefore reads whatever the slot holds *now*.
4. The third ACK derives `initial_dsn` and creates the first subflow.
5. MP_JOIN handlers create subflows and store nonces in them. They read the nonces back two packets later to build HMACs.
6. DSS handlers look the subflow up by ports and advance its sequence counter.
7. A handler that returns `STATUS_ERR` aborts the test. A NULL dereference crashes packetdrill.

Everything runs in one thread. The behaviours that are hard to test are **sequences of packets** rather than thread interleavings:

- retransmissions;
- a second connection sharing the single global `mp_state`;
- a join interleaved with handshakes;
- a live packet without the option the handler expects;
- host byte order.

## 2. Modules

- **`MptcpBindings`**: the binding store as pure operators.
  - `ScriptVar(v)` models `add_mp_var_script_defined`.
  - `KeyVar(slot)` models `add_mp_var_key`, a pointer to a slot.
  - `AddMpVar` models the uthash add. The newest entry is found first.
  - `FindMpVar` models `find_mp_var`: an exact match on the whole string.
  - `IsScriptDefined` is the three-part test of `mptcp_gen_key`.
  - `Deref`, `DequeueVar` and `FindNextKey` model `find_next_key`. It returns `NoVar` when the queue is empty or the name is unbound.
- **`MptcpCrypto`**: digests are records of their inputs. Two digests are equal exactly when their inputs are.
  - A 32/64-bit field is a byte image `[v, swapped]`.
  - `Hton` reverses the bytes iff the constant `HostLittleEndian` is TRUE.
  - This is the only data abstraction the HMAC and token properties need: which key, which nonce, in which order, and in which byte order.
- **`MptcpEngine`**: the engine. One step is one script packet carrying one MPTCP option.
  - **Variables.** `key`, `keySet`, `initialDsn`, `lastAddrId`, `varsQueue`, `vars` and `subflows` are the fields of `mp_state`. `script` and `status` model the test driver.
  - **History variables:**
    - `kernelKey` is the key the real kernel uses.
    - `wire` holds the nonce bytes exchanged on each subflow.
    - `sent` holds the payload bytes mapped on each subflow.
    - `out` is the option as rewritten.
  - **Actions.** There is one action per handler branch, in the code's order:
    - MP_CAPABLE: `MpCapableSynIn`, `MpCapableSynOut`, `MpCapableAck`, `MpCapableSynAckIn`, `MpCapableOther`.
    - MP_JOIN cases 1-6 and the error branch: `MpJoinSynIn`, `MpJoinSynAckOut`, `MpJoinAckIn`, `MpJoinSynOut`, `MpJoinSynAckIn`, `MpJoinAckOut`, `MpJoinOther`.
    - DSS: `MpDssDsnChecksumIn`, `MpDssDsnIn`, `MpDssAckIn`, `MpDssOut`.
  - **Helpers for the code's own functions.** `CapKeys` models `mptcp_set_mp_cap_keys`: two pops, and the second only if the first found a binding. `FindMatchingSubflow(p, dir)` models `find_matching_subflow`. The direction stands for the match function the C code passes. `FindInbound` and `FindOutbound` are its two callers.
  - **Key learning.** `mptcp_gen_key` and `extract_and_set_kernel_key` share one body, `LearnKey(slot, fresh)`:
    - a script value of the front name is stored with `SetKey` (`set_*_key`);
    - if the slot is still not set, `fresh` is stored, and the front name is bound to the slot (`BindFront`).
    - `GenKey` adds the early return on an empty queue. `ExtractKernelKey` adds the live packet without an option.
  - **How an action maps to the code.**
    - Each action performs the whole handler: key learning, binding, popping names, creating or updating subflows, the fields written, and the error result.
    - `Finish(err)` moves to the next packet, or stops with `status = "failed"`.
    - NULL dereferences lead to `status = "crashed"`.
  - **Inputs the live kernel supplies**, chosen with `\E`:
    - whether its packet carries an MPTCP option, from the constant set `LiveHasOption`;
    - its nonce.
  - **Unterminated names.** `enqueue_var` copies a name without its `'\0'`. Reading that copy as a string (undefined behaviour) gives the name followed by whatever heap bytes follow it.
    - When the constant `UnterminatedNames` is TRUE, each queued copy is either the name itself or `<<name, position>>`: a string of its own that no other copy equals.
    - `QueuedName` makes this choice in `Init`. The binding store is keyed by these strings, exactly as uthash is.
  - **Values malloc leaves uninitialised** are `Unset`.
  - **The never-assigned `initial_dack`** is the value `Zero` of the zero-initialised global.
- **`MptcpSession`** is the abstract specification: the session state of spec.md §3, whatever handler runs.
  - Each key is learnt once.
  - The IDSN is derived once, from packetdrill's key, after both keys are known. The same step opens the first subflow.
  - A subflow opens with sequence number 0, may be re-opened only while it is still 0, and its sequence number only moves forward.
  - `MptcpEngine` instantiates it as `Session` with a refinement mapping:
    - a key slot maps to "unknown" unless its set flag is true;
    - `seq[pr]` maps to the counter of the first subflow that the port lookup finds for `pr`.
  - `SessionRefined == Session!Spec` is checked as a property.
- **`MCMptcp`** supplies the model values and the families of scripts.
  - Scripts are built from packet constructors: `SynIn`, `AckOut`, `JoinSynIn`, `Dss`, and so on.
  - Each constructor carries the key names the parser would queue for that packet.

## 3. Runs

All runs use `MCMptcp` with two key values, two nonce values, two packetdrill ports (three in `join`) and one kernel port. Deadlock is not checked (`CHECK_DEADLOCK FALSE`): a script is finite, and a failed handler aborts the test, so a final state is how every test ends.

| run | expect | what it shows |
|---|---|---|
| `capable` | pass | Active and passive handshakes are explored, with each SYN and SYN/ACK optionally retransmitted, every combination of script-defined names, live packets with or without the option, and an optional malformed option. In all of them, every key written is its owner's (`HandshakeKeysConsistent`) and a set key slot never changes (`KeySlotsImmutable`). |
| `join` | pass | Joins by either side after either handshake, checked on a big-endian host, with the join SYN possibly retransmitted, malformed options, and live packets without the option. In some scripts, two joins, on ports t2 and t3 and opened by either side, interleave their packets in every order. Every HMAC equals the one the receiver computes from the nonces on the wire, and tokens and expected nonces match the live packets. |
| `data` | pass | A handshake, optionally a join by packetdrill, then up to three DSS options on either subflow, on a little-endian host. Every subflow sequence number equals the payload mapped on that subflow before (`SsnMatchesKernel`). Every data-level length equals the payload (`DllMatchesPayload`). Under weak fairness every script runs to its end without error (`ScriptCompletes`). The join's HMACs, token and nonce match the wire (`JoinHmacMatchesWire`, `JoinFieldsMatchLive`), which checks cases 1-3 on the byte order the `join` run does not use. |
| `session` | pass | The handshakes of `capable` (with live options present), data on the first subflow, and joins by either side with data on the second. The engine refines `MptcpSession` (`SessionRefined`). The DSS subflow sequence numbers are also right (`SsnMatchesKernel`) on subflows opened by either side. This includes a kernel join (case 4) whose subflow case 5 then updates; `data` has no kernel join. |
| `key_overwrite` | violation | A second connection's SYN names a script-defined key. `mptcp_gen_key` overwrites `packetdrill_key` even though it is already set (line 339). |
| `kernel_key_unlearned` | violation | The live SYN has no MPTCP option. The error of `extract_and_set_kernel_key` is overwritten (line 444), so the packet passes without the kernel key having been learnt. |
| `join_kernel_hmac_le` | violation | Case 5 on a little-endian host. It hashes the host-order nonce but sends `htonl` of it, and writes the HMAC through `htobe64`. |
| `join_kernel_nonce_le` | violation | Case 4 on a little-endian host. It expects `htonl` of a nonce that is already in wire order. |
| `ssn_reset` | violation | A resent third ACK prepends a duplicate subflow whose counter restarts at 0 (line 453). |
| `dss_ipv6` | violation | An IPv6 DSS mapping reads `ipv4->ihl` through a NULL pointer (line 687). |
| `dss_ip_options` | violation | With IP options (`ihl` 6), `ihl*8 - (doff*4 - 20)` no longer equals the header length. The u16 length of a 1-byte segment wraps to 65533 (line 687). |
| `unterminated_names` | violation | A correct handshake fails. Step by step: <ol><li>The SYN's copy of `<c>` reads with garbage after it.</li><li>`mptcp_gen_key` binds that garbage string.</li><li>The third ACK's clean copy of `<c>` finds nothing.</li></ol> (line 52) |

Each property of a passing run has a mutant in `PROJECT.json`. A mutant is an operator defined just before the definition it replaces, modelling a plausible slip, and each one is caught:

- unswapped ports;
- a binding to the wrong slot;
- a key drawn even when one is known;
- a nonce stored into a copy of the subflow entry, not the list;
- the token computed from packetdrill's own key;
- a new subflow's sequence counter starting at 1, on either side;
- the whole TCP header subtracted from the payload length;
- `find_next_key` returning only script-defined bindings.

**Why the bounds suffice.**

- *Two key values and two nonce values* are enough to tell "the right one" from "another one", which is all the properties compare.
- *Retransmitting each handshake packet once* reaches every combination of the `keySet` guards.
- *Two packetdrill ports* give two subflows. Lookups can then hit the wrong subflow or none.
- *A third port in `join`* gives two joins in flight at once. Their six packets interleave in all 20 orders, so each join's nonces must survive the other join's packets in the subflow list.
- *Up to three DSS options* cover the per-subflow counter moving between subflows. They also cover every DSS branch: with and without a checksum, with and without a DACK, and outbound.
- *Two payload sizes (1 and 2 bytes)* are enough for the length arithmetic: the ihl error is a fixed 4-byte offset per option word, and one word already shows it.
- *The `join` run is big-endian.* The little-endian bugs of the kernel-side cases 4-5 are the two violation runs. The tool-side cases 1-3 are checked on a little-endian host by the `data` run.

**Fairness.** `FairSpec` adds `WF_vars_(Next)`. packetdrill's event loop hands each script packet to the engine in turn, and the engine never waits, so a packet that can be processed is processed. `ScriptCompletes` relies on this. The other properties are safety properties, checked under `Spec`.

## 4. What is not modelled, and the plan

- **IP addresses and the kernel's address id** are left out of the subflow record. Nothing in mptcp.c reads them back.
- **The option loop of `mptcp_insert_and_extract_opt_fields`** visits a packet's options in header order. It aborts on the first error and carries each option's effect on `mp_state` into the next. A packet with several MPTCP options is therefore a run of consecutive script elements that share the packet's header, and the model's scripts are sequences of options. The one approximation is the live packet: each element chooses afresh whether it carries an option. No script family puts two options in one packet, because the header fields the handlers read are the same either way.
- **The DSS checksum** is recorded as its inputs, not computed. The code's sum of two one's-complement checksums is a planned `RECURSIVE` operator, to be checked against RFC 6824's definition.
- **HMAC keys on ILP32 builds.** The key buffer is filled through `unsigned long*`. The model assumes the LP64 builds packetdrill is made for. On a 32-bit build, half of each key would be uninitialised stack, and every HMAC would be wrong.
- **The data ACK** uses `initial_dack`, which is never assigned; the code marks this as a TODO. It is modelled as the `Zero` it holds. No run states the spec's `initial_dack = IDSN(kernel key)`, which the code cannot meet.
- **Subflow matching ignores addresses.** Subflows are matched by ports only, and addresses are not modelled. Two subflows that share ports but differ in address would be confused.
- **Counter wraps.** The u32 subflow sequence number and the u8 address id are not driven to their wraps. That would need 4 GiB of mapped payload, or 256 joins in one script.
- **The `run_test.sh` scripts** only invoke the binary.
- **Teardown** (`free_mp_state`, `free_var_queue`, `free_vars`, `free_flows`) runs after the last packet. It only releases memory that no later step reads. `free_vars` frees a value only if the script owns it, and never a pointer into a key slot. The model's bindings record that ownership (`scriptDefined`), and nothing after teardown could observe the difference.
- **`find_subflow_matching_socket`** is called from packetdrill code outside `mptcp.c`. It only reads the subflow list.
