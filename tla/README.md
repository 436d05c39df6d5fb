# TLA+ models of the hanat worker (vpp-1)

This directory holds TLA+ models of the data-plane core of the hanat NAT worker
(`src/src/plugins/hanat/worker/`): the session cache, the checksum deltas, the
longest-prefix-match (LPM) table that picks a mapper, and the registries around
them, and of the VPP object model's (VOM, `src/src/vpp-api/vom/`) interface
and LLDP-binding objects, which keep a client's desired configuration in VPP
across VPP restarts. Each module is translated from the C source; `PROJECT.json` maps every
modelling definition to the lines it stands for, and lists the runs, the mutants
that show each checked property can fail, the findings and the hazards.

## Inventory

| Component | Source | State | Operations |
|---|---|---|---|
| ChecksumDelta | `hanat_worker.c` 87-117 | none (pure) | `l3_checksum_delta`, `l4_checksum_delta` |
| SessionTable | `hanat_worker_db.c` 30-199, `hanat_worker.c` 119-156 | session pool `db->sessions` (slots, free bitmap, free list), bihash `db->cache` key -> slot, vlib time, and per worker its position in a call | `hanat_session_find`, `hanat_session_add`, `hanat_worker_cache_add_incomplete`, `hanat_session_delete`, `hanat_worker_cache_add`, `hanat_worker_cache_update`, stale callback |
| LpmTable | `hanat_worker_db.c` 214-297 | bihash masked key -> value, refcount per prefix length, bitmap of lengths | `hanat_lpm_64_add`, `hanat_lpm_64_delete`, `hanat_lpm_64_lookup` |
| PoolRegistry | `hanat_worker.c` 158-213 | pool of mapper entries, the LPM, `lb_buckets` per fib | `hanat_worker_mapper_add_del`, `hanat_worker_mapper_buckets` |
| InterfaceRegistry | `hanat_worker.c` 49-82 | interface pool, `interface_by_sw_if_index` | `hanat_worker_interface_add_del` |
| Init / enable | `hanat_worker.c` 29-47, 215-222 | graph node indices | node lookup, UDP port registration |
| Mapper API | `hanat_mapper_api.c` | the four timeouts `set_timeouts` stores; everything else belongs to mapper code not in `src/` | message handlers (byte-order conversion, a call, a reply), the user and session dumps, printers |
| VOM interface | `vpp-api/vom/interface.cpp` | singular DB of interfaces by name, per object the `HW::item`s handle, state, L2 address, table | construct, `update`, `sweep`, `replay`, destructor, `handle_populate`, `set(l2_address_t)` |
| VOM LLDP binding | `vpp-api/vom/lldp_binding.cpp` | singular DB of bindings, the `m_binding` item, a reference to the interface | construct, `update`, `sweep`, `replay`, destructor |
| VOM DHCP config commands | `vpp-api/vom/dhcp_config_cmds.cpp` | the item of the bind command | `bind_cmd::issue`, `unbind_cmd::issue` rc handling |
| VOM LLDP global | `vpp-api/vom/lldp_global.hpp` | - | declarations only |
| ILA header | `vnet/ila/ila.h` | - | declarations only |

How they interact: a worker hashes a packet to a session key
(`hanat_key_from_ip`), looks it up (`find`) and, on a miss, either adds a
complete session (`cache_add`, which computes both checksum deltas first) or a
pending one holding the buffered packet (`add_incomplete`) while the mapper is
asked; the mapper's answer becomes a `cache_update`, which recomputes the deltas.
The mapper for a pool is chosen through the LPM table that
`mapper_add_del` fills; `mapper_buckets` installs the load-balance buckets per
fib. The session table and the LPM are shared by all workers, and the code says
so ("Shared table. Needs locking.", `hanat_worker_db.c:201`) without locking.

What is hard here, and what each part needs:
- checksum deltas: ones'-complement arithmetic with end-around carry, a 64-bit
  accumulator returned through a 32-bit `int`; needs "delta congruent to the
  field change" over all inputs;
- session table: pool slots reused by index, a bihash that on a full page
  reclaims entries through a stale callback, a callback argument of the wrong
  type (`&db`); needs "index and pool agree", "no session leaked", "deltas
  current", and the spec's idle-replace rule;
- LPM: one bihash for all prefix lengths, refcounts and a bitmap kept beside
  it; needs "lookup returns the longest matching prefix" (an abstract LPM
  refined by the implementation) and "bitmap and refcounts agree with the
  entries";
- registries: add/delete guarded by a lookup, off-by-one vector bounds;
  needs "add then delete restores the state", "n buckets installed for n
  mappers";
- concurrency: find/add/delete of several workers interleaved on the shared
  table.
- VOM: a client writes objects into the OM; each object's `update` queues
  commands for what differs from what VPP was last told, and `HW::write`
  issues them in order, each command reading the handle item when it is
  issued. When VPP restarts, every object is replayed (interfaces in name
  order, then bindings) against a VPP that has lost every virtual interface.
  A binding holds a `shared_ptr` to its interface, so an interface leaves VPP
  only with its last binding. Needs "VPP holds exactly the OM's objects",
  "every desired attribute is programmed once the OM is in sync", and "an
  LLDP binding is in VPP exactly when the OM has it".

## Modules

- `HanatChecksum` - operators only. `IpCsumAddEven` / `IpCsumSubEven` are
  vppinfra's `ip_csum_add_even` / `ip_csum_sub_even` (not in `src/`, modelled
  from spec.md 4.3: add with end-around carry, subtract with end-around
  borrow; vppinfra works on the complemented value, which flips only the sign
  of the delta, and the correctness criterion is taken modulo the
  ones'-complement modulus, so the direction does not matter to the check).
  `ReturnAsInt` is the conversion of the `ip_csum_t` to the functions' `int`
  return type and back (sign extension). `L3ChecksumDelta`,
  `L4ChecksumDelta` translate the two functions. Widths are constants
  (64/32/32/16/16 in the code; 8/4/4/2/2 in the checks, which keep every ratio
  the arithmetic depends on).
- `MC_HanatChecksum` - a harness with one variable `call` that walks through
  every input tuple of the scaled widths (all instruction subsets, all
  addresses, all ports, all int seeds), so an invariant over `probe` is a check
  against the reference `CongruentDelta` over the whole bounded input space.
- `HanatSessionTable` - variables `pool` (slot -> key and entry, freed slots
  keep their bytes), `free` (the pool's free list), `index` (the bihash as a
  partial function key -> slot), `now` (vlib time), `ret` (what the last call
  returned). One action per entry point: `HanatWorkerCacheAdd` (with
  `HanatSessionAdd` inside it), `HanatWorkerCacheAddIncomplete`,
  `HanatWorkerCacheUpdate`, `HanatSessionDelete`, and `Tick`. The bihash insert
  `BihashAddOrOverwriteStale` is modelled from spec.md: existing key
  overwritten, new key added while its page has room, on a full page an entry
  the stale callback calls stale is overwritten, else the page is split. The
  callback receives `&db` where it expects `db`: what it reads is undefined,
  so the model lets it see any `last_heard` (`GarbageLastHeard`), and its
  `pool_put_index` frees nothing in `db->sessions`.
- `HanatSessionConcurrent` - the same table under several workers with no
  lock (spec.md 5 asks find and the write paths to be safe under concurrent
  workers; the code says "Needs locking"). Each call is cut at the points
  where another worker can run: `Start` (a worker enters cache_add,
  add_incomplete or delete), `Search` (the bihash search that begins find
  and delete), `FindCheck` (find's `pool_is_free_index` test),
  `WriteBuffer` (add_incomplete writing through the pointer find returned),
  `PoolGet` (`pool_get_zero` and the copy), `Insert` (the bihash insert),
  `PoolPut` and `Remove` (delete frees the slot, then removes the key). `pc`,
  `call` and `value` are each worker's position, arguments and local. The
  pool is vppinfra's: `free` is its bitmap and `freeList` its
  `free_indices` vector (LIFO), and `len` its length, so a slot put twice (two
  racing deletes, with the release build's `ASSERT` compiled out) is handed
  out twice. Each bihash call and each pool operation is one step; the
  bihash locks its writers, and treating the pool operations as atomic can
  only hide interleavings; sessions are named by index, so the move of
  the whole vector when `pool_get` grows it is not represented. Keys, the buffer index and the session's key are
  the only data kept; the page never fills.
- `MC_HanatSessionConcurrent` - two workers, two keys, at most two slots,
  one buffer index.
- `MC_HanatSessionTable` - three packets (TCP, ICMP echo, ICMP other), two
  cache entries, one update, three slots as symmetric model values.
- `LpmAbstract` - what the LPM table promises (spec.md 4.2): `entries`, a
  function from (fib, masked prefix, length) to a value, and `result`, the
  answer of the last lookup, which is the value of the longest entry covering
  the address. It models no code; it is the specification `HanatLpm` is
  checked against.
- `HanatLpm` - variables `bihash` (masked compound key -> value),
  `refcount` (per key length), `bitmap` (the set bits of
  `prefix_lengths_bitmap`), `aborted` (stopped in `assert(0)`), and two that
  belong to the caller: `live`, the triples it has inserted and not deleted
  (an auxiliary variable), and `result`. `HanatLpm64Add`,
  `HanatLpm64Delete` and `HanatLpm64Lookup` (with the recursive
  `LookupBits`, the bitmap walk in ascending bit order) translate the three
  functions; `LpmAdd`, `LpmDelete`, `LpmLookup` are the caller's steps, which
  keep spec.md's contract (no duplicate triple, delete only what was
  inserted). The refinement mapping is `entries <- live, result <- result`:
  the implementation refines the abstract table exactly when every lookup
  answers what longest-prefix match over the inserted triples answers.
  `AssertAborts` is a build constant: TRUE when `<assert.h>` asserts are
  compiled in.
- `MC_HanatLpm` - two prefix sets at 4-bit addresses: four prefixes nested
  three deep whose masked keys all differ, and the scaled form of spec.md 8's
  /16 and /24 of one network.
- `HanatWorkerControl` - the control calls, one at a time: `MapperAddDel`
  (the pool arena `pools`/`free` and the LPM, through `Lpm == INSTANCE
  HanatLpm` with asserts kept), `MapperBuckets` (`lb_buckets`, a vector by
  fib of bucket vectors; the read one past the end at `fib_index =
  vec_len` may see a non-null word, which is handed to `vec_free` and stops
  the model as `wild_free`), and `HanatWorkerInterfaceAddDel` (`ifaces`,
  `ifree`, `by_sw` grown with zero fill by `VecSet`; the feature call may
  return an error after the registry changed). `Ntohl` reverses the bytes of
  a 32-bit word.
- `MC_HanatWorkerControl` - three prefixes (8/3, 8/1, 12/2), two pool and
  two interface slots, two bucket fibs and two bucket arrays in network order.

- `VomInterface` - variables `om` (name -> the stored interface: handle,
  state, L2 address and table items, each a value and an rc), `held` (names
  whose client object is alive), `lldp` (name -> the binding's item),
  `desired` (what the client last wrote), `vpp` (the dataplane: interfaces by
  handle with owner, admin state, MAC, tables and LLDP), `synced` (the OM has
  replayed since the last VPP restart), `populated` (`handle_populate` has
  run), `restarts`. `Update` translates `interface::update` with `Singular`
  (find_or_add); `NewInterface`/`NewInterfaceRd` are the two constructors'
  initial items and `NewLldpBinding` the binding's; `ItemUpdate` is `HW::item::update`; `Write` issues the
  queue (`HW::write`), and `Issue` gives each command its effect on VPP and
  its rc; `Sweep`/`DestroyInterface` are the destructor, `Replay` and
  `LldpReplay` the replays, `HandlePopulate` the dump of VPP at start-up,
  written with the queue disabled so the commit marks items OK and sends
  nothing. `VppRestart` wipes virtual interfaces, ports lose their MAC and
  tables; `HandleReplay` is `OM::replay`. VPP allocates the lowest free
  handle, and a command fails only when it names a handle VPP does not have.
  `HW` (`hw.cpp`) and `OM` (`om.cpp`) are not in `src/`; the definitions
  standing for them are marked spec-modelled in `PROJECT.json`.
- `MC_VomInterface` - names 1..4 (an ethernet port, a loopback in a route
  domain, a BVI, a tap in a route domain), port 1 dumped with handle 1,
  handles 0..4 with 0 the local interface.

### Plan (in order; later sittings continue it)

1. `HanatChecksum` + `MC_HanatChecksum` - done.
2. `HanatSessionTable` + `MC_HanatSessionTable`, one caller at a time - done.
3. `HanatLpm` + `LpmAbstract` + `MC_HanatLpm`, with the refinement - done.
4. `HanatWorkerControl` (pool registry over `HanatLpm`, buckets, interface
   registry) - done.
5. A run of `HanatWorkerControl` with prefixes whose host bits are set
   (`MCPrefixesRaw` is defined), if the run budget allows; by hand TLC finds
   `PoolLpmAgree` violated in two steps (add 8/3, delete 11/1).
6. `HanatSessionConcurrent`: several workers whose find/add/delete are split
   into the steps between which another worker can run - done (one
   violation run, whose property covers the double add, the write into a
   freed slot and the double free).
7. VOM interface and LLDP binding objects (sweep/replay) - done
   (`VomInterface`).
8. Liveness of the VOM replay (every restart is followed by a replay) needs
   weak fairness of `HandleReplay`; it is claimed only if the caller of
   `OM::replay` comes into `src/`.

## Runs

| Run | Module / cfg | Expect | What it shows |
|---|---|---|---|
| checksum_l4 | MC_HanatChecksum / HanatChecksum_l4.cfg | pass | `L4DeltaCorrect`: for every seed, instruction set and port pair the L4 delta is congruent to seed + port changes (278528 probes) |
| checksum_l3 | MC_HanatChecksum / HanatChecksum_l3.cfg | violation | `L3DeltaCorrect` fails: the `int` return drops the accumulator's upper half when both addresses change (SA 15->0, DA 1->0 at the scaled widths) |
| session_table | MC_HanatSessionTable / HanatSessionTable.cfg | pass | `TypeOK`, `IndexConsistent` (every indexed key names an allocated slot holding it), `CachedDeltasCurrent` (deltas match the current translation, L4 for TCP/UDP) |
| session_icmp_seed | ... / HanatSessionTable_L4DeltaFollowsProtocolRule.cfg | violation | `cache_add` seeds the ICMP L4 delta with the L3 delta, against spec.md 4.3 and `cache_update` |
| session_stale_leak | ... / HanatSessionTable_NoOrphanSession.cfg | violation | a full-page insert overwrites an entry whose session the misdirected callback never frees: the session leaks |
| session_concurrent | MC_HanatSessionConcurrent / HanatSessionConcurrent_SessionTableSafe.cfg | violation | `SessionTableSafe` (a session a worker holds is live and its key's; between calls every live slot is its key's index entry and no slot is twice in `free_indices`) fails in eight steps: both workers add k1, both miss, take slots 0 and 1 and insert, leaving two live sessions of k1, one unreachable. With the other conjuncts removed TLC also reaches the freed-slot write (ten steps) and the double free (twelve) |
| lpm_distinct | MC_HanatLpm / HanatLpm.cfg | pass | `TypeOK`, `RefcountMatchesEntries` (refcount of a length = live entries of it, bit set iff positive), `LpmImplementsLongestMatch` (`LpmAbstract!Spec` under the mapping) for prefixes whose masked keys differ, over two fibs |
| lpm_nested | MC_HanatLpm / HanatLpm_nested.cfg | violation | `LpmImplementsLongestMatch` fails: add 8/1 -> 0, add 8/3 -> 1 share masked key 8, and a lookup of 10 (only in 8/1) answers 1 |
| control | MC_HanatWorkerControl / HanatWorkerControl.cfg | pass | `TypeOK`, `PoolLpmAgree` (each registered mapper is the LPM's answer for its own prefix, the LPM answers only registered ones), `InterfaceIndexConsistent` (pool search and side table agree, no interface twice) |
| control_mapper_del | ... / HanatWorkerControl_MapperDeletable.cfg | violation | deleting a registered mapper returns -1: the "exists" test precedes the `is_add` test |
| vom | MC_VomInterface / VomInterface.cfg | pass | `TypeOK`, `VppMatchesOm` (VPP's virtual interfaces are exactly the OM's, on their handles), `DesiredProgrammed` (once synced, admin state, tables and any set MAC of every held interface are in VPP on its handle), `LldpProgrammed` (VPP has LLDP on a handle iff a binding's interface owns it), `ItemsTruthful` (once synced, every item the OM holds as written is what VPP has on the interface's handle, so the next diff is against the truth), `WriteIdempotent` (an action property: while in sync, a step that leaves the desired interfaces and the bindings as they were changes neither VPP nor the OM's items), with two VPP restarts and no MAC written |
| vom_replay_mac | ... / VomInterface_DesiredProgrammed.cfg | violation | `DesiredProgrammed` fails: `interface::replay` re-queues create, state and table but not `set_mac_cmd`, so after a restart the MAC a client set is gone while the OM's item stays OK (`ItemsTruthful` fails on the same trace) |

Runs retired to keep the list within its budget of twelve (their cfgs are
kept and still reproduce their findings):
- `HanatWorkerControl_BucketsAreRequested.cfg`: `mapper_buckets` installs
  n + 1 buckets, the last naming mapper 0 (`hanat_worker.c:204`);
- `HanatSessionTable_AddReplacesIdleSession.cfg`: `add` of a key whose
  session is idle past the timeout fails instead of replacing it (spec.md
  4.1 and 8; `hanat_worker_db.c:119`), found in four steps: add, two ticks,
  add.

Bounds. The checksum widths are the smallest that keep an address two checksum
words wide and the int half the accumulator; every input of those widths is
enumerated. The session table has three slots and one bihash page of two
entries, so a third key hits a full page and the stale path runs; time goes
to 2 with a timeout of 2, so sessions become idle; the packets cover both key
forms (ports, echo identifier) and the zero-port ICMP case. A VIEW drops the
contents of freed slots, which no later step reads (`pool_get_zero` and the
copy overwrite a slot before use), and symmetry permutes the slot names.
The LPM runs use 4-bit addresses and 8-bit compound keys: lengths 0..4 of
the address are all reachable, the distinct set nests three prefixes and
adds a full-length one (the `len == 64` case of `masked_address64`), two
fibs show that the fib bits separate keys, and the lookup addresses are
covered at one, two and three lengths. The control run has two pool slots
for three prefixes, so the pre-check, the add and the aborting delete all
happen and the pool fills; two bucket fibs make the `fib_index = vec_len`
case happen on the second call; two interface indices and two slots let
adds, refused adds, deletes and reuse interleave. The concurrent session run has two workers (the least for an
interleaving), two keys (so a freed slot can be reused for another key) and
two slots (so both reuse through the free list and growth happen); its
deadlock check is off because a worker whose `pool_get` would grow the pool
past the bound stops there, which the real pool never does. The VOM run has one
port, two virtual interfaces in a route domain and one without, five handles
(so a restart can make VPP hand a replayed interface a different handle than
it had, in either order of replay) and two restarts (a restart of a VPP that a replay has already
reprogrammed, with handles that differ from the first run); the violation run adds one MAC value, the least
that lets a client set a MAC.

Deadlock is not checked in the LPM violation run and the control runs: an
`assert(0)` or a free of a wild pointer ends the process there, which the
model represents as a state with no successor. The VOM run checks deadlock:
a client write is always possible.

Fairness: none. The properties checked are safety properties. The worker
loop offers no guarantee that any particular call is ever made. In VOM the
replay after a VPP restart is started by the client through `OM::replay`,
whose caller is not in `src/`, so no fairness on `HandleReplay` is
justified by the code and no liveness property is claimed.

## Not modelled

- The mapper API (`hanat_mapper_api.c`). Each handler converts the
  message's fields from network order and calls a mapper function
  (`hanat_mapper_enable`, `hanat_mapper_add_del_ext_addr_pool`,
  `hanat_mapper_add_del_static_mapping`, the state-sync and failover
  calls) whose code is not in the repository, then replies with its
  result. `set_timeouts` stores four values that no code in `src/` reads.
  The user and session dumps walk mapper records (users, sessions and
  their per-user list) that only the absent mapper code fills. spec.md
  does not describe the mapper either. A model would consist of
  guesses about that code, so the one defect visible here (the `u8`
  `opaque_len`) is listed as a hazard instead.
- VOM event dispatch through `m_hdl_db` (`interface::find(handle)`,
  `interface::add`/`remove`) and `set(oper_state_t)`: their callers (the
  command completions and event listeners in `interface_cmds.cpp` and
  `hw.cpp`) are not in `src/`, and spec.md leaves VOM out of scope.
- `lldp_binding`'s `handle_populate` is a FIXME that reads nothing, so the
  model starts VPP without LLDP.
- The DHCP `bind_cmd`/`unbind_cmd` requests themselves (only their rc
  handling is used) and `events_cmd`, which only registers a callback for
  a `dhcp_config` object that is not in the repository.
- The interface's route domain is fixed per name, so the model never
  writes an interface with a route domain after one without (the code
  never adopts the later one; see the hazards).
- `lldp_global.hpp` and `ila.h` are declarations only.
- `hanat_worker_init`/`enable` look up nodes and register a port.
- Logging (`clib_warning`, `printf`) and the `to_string`/`dump` printers
  are left out everywhere.
- Several hazards are reached by the models but have no run of their
  own, because the project stays within twelve runs (see the hazards in
  `PROJECT.json`):
  - the idle-key add (a retired run);
  - the wild free of `mapper_buckets`;
  - the registry left changed by a failed feature call;
  - the route domain that is never adopted;
  - the two table commands sharing one item.
