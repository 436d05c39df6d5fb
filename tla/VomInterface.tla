----------------------------- MODULE VomInterface -----------------------------
(***************************************************************************)
(* The VOM interface object and the LLDP binding on it (vpp-api/vom,       *)
(* interface.cpp and lldp_binding.cpp), against the VPP they program.      *)
(*                                                                         *)
(* A client writes desired objects into the object model (OM); each name   *)
(* has one singular object whose HW::items remember what was last written  *)
(* to VPP: an item is a value with the rc of the command that wrote it,    *)
(* and "if (item)" tests rc = OK.  Commands are queued and issued in       *)
(* order by HW::write; a command holds references to the object's items,   *)
(* so it reads them when it is issued.  VPP may restart and lose all       *)
(* virtual interfaces; the client then replays the OM.                     *)
(*                                                                         *)
(*  om       name -> the singular interface object (absent: not in m_db)   *)
(*  held     names the client's own OM key holds                           *)
(*  lldp     name -> the singular lldp_binding keyed by that interface     *)
(*  vpp      sw_if_index -> what VPP holds for it (owner is a ghost field) *)
(*  desired  name -> the last desired object written for it                *)
(*  synced   no VPP restart is waiting for the client's replay             *)
(*  populated, restarts: the start-up dump has run; restarts so far        *)
(***************************************************************************)
EXTENDS Integers, Sequences, FiniteSets, FiniteSetsExt, SequencesExt, TLC

CONSTANTS
    Names,        \* interface names, ordered as m_db (a std::map) orders them
    ItfType,      \* name -> "loopback" | "bvi" | "afpacket" | "tap" | "ethernet"
    RdOf,         \* name -> whether the client builds it in a route domain
    PhysHandle,   \* ethernet name -> the sw_if_index of its port
    Handles,      \* VPP sw_if_index values
    LocalHandle,  \* local0
    Macs,         \* MAC addresses a client may set
    HwMac,        \* the MAC VPP gives a port or a new virtual interface
    RdTable,      \* table id of the route domain
    INVALID,      \* handle_t::INVALID
    MaxRestarts

Ethernets == {n \in Names : ItfType[n] = "ethernet"}

ASSUME /\ Names \subseteq Nat
       /\ PhysHandle \in [Ethernets -> Handles \ {LocalHandle}]
       /\ INVALID \notin Handles
       /\ HwMac \notin Macs
       /\ Cardinality(Handles) >= Cardinality(Names) + 1

DEFAULT_TABLE == 0
UP == "up"
DOWN == "down"
Rcs == {"UNSET", "NOOP", "OK", "ERR"}

VARIABLES om, held, lldp, vpp, desired, synced, populated, restarts

vars == <<om, held, lldp, vpp, desired, synced, populated, restarts>>

\* HW::item: a value and the rc of the command that last wrote it
Item(d, rc) == [d |-> d, rc |-> rc]

Written(i) == i.rc = "OK"

\* HW::item::update: adopt the desired value; a command is needed when it
\* differs or was never written; an UNSET desired item asks for nothing
ItemUpdate(i, want) ==
    IF want.rc = "UNSET" THEN [i |-> i, need |-> FALSE]
    ELSE [i |-> [i EXCEPT !.d = want.d],
          need |-> want.d # i.d \/ ~Written(i)]

\* a command: an operation on the items of the object called n
Cmd(op, n) == [op |-> op, n |-> n]

\* interface::mk_create_cmd / mk_delete_cmd: one create (a BVI's tag is
\* left out) or delete command per virtual type, none for an ethernet port
MkCreateCmd(n) ==
    IF ItfType[n] \in {"loopback", "bvi", "afpacket", "tap"}
    THEN <<Cmd("create", n)>> ELSE <<>>

MkDeleteCmd(n) ==
    IF ItfType[n] \in {"loopback", "bvi", "afpacket", "tap"}
    THEN <<Cmd("delete", n)>> ELSE <<>>

VppItf(owner, mac) ==
    [owner |-> owner, admin |-> DOWN, mac |-> mac,
     t4 |-> DEFAULT_TABLE, t6 |-> DEFAULT_TABLE, lldp |-> FALSE]

Present(st, h) == h \in DOMAIN st.vpp

SetVpp(st, h, f, v) == [st EXCEPT !.vpp[h][f] = v]

SetItem(st, n, f, i) == [st EXCEPT !.om[n][f] = i]

\* the rpc_cmd pattern of dhcp_config::bind_cmd::issue: the item takes the
\* rc of VPP's reply, which fails for a handle VPP does not have
IssueBind(st, n) ==
    LET h == st.om[n].hdl.d
    IN  IF Present(st, h)
        THEN [SetVpp(st, h, "lldp", TRUE) EXCEPT !.lldp[n] = "OK"]
        ELSE [st EXCEPT !.lldp[n] = "ERR"]

\* dhcp_config::unbind_cmd::issue: waits for the reply and sets the item
\* to NOOP whatever the reply said
IssueUnbind(st, n) ==
    LET h == st.om[n].hdl.d
    IN  [IF Present(st, h) THEN SetVpp(st, h, "lldp", FALSE) ELSE st
         EXCEPT !.lldp[n] = "NOOP"]

\* a command issued to VPP; the interface commands follow the same rpc
\* pattern: the handle read at issue, the item set from the reply
Issue(st, c) ==
    LET n == c.n
        o == st.om[n]
        h == o.hdl.d
        Set(vf, i) ==
            IF Present(st, h) THEN SetItem(SetVpp(st, h, vf, o[i].d), n, i, Item(o[i].d, "OK"))
            ELSE SetItem(st, n, i, Item(o[i].d, "ERR"))
    IN  CASE c.op = "create" ->
               LET nh == Min(Handles \ DOMAIN st.vpp)
               IN  [st EXCEPT !.vpp = (nh :> VppItf(n, HwMac)) @@ st.vpp,
                              !.om[n].hdl = Item(nh, "OK")]
          [] c.op = "delete" ->
               [st EXCEPT !.vpp = [x \in DOMAIN st.vpp \ {h} |-> st.vpp[x]],
                          !.om[n].hdl.rc = "NOOP"]
          [] c.op = "state"  -> Set("admin", "state")
          [] c.op = "mac"    -> Set("mac", "l2")
          [] c.op = "table4" -> Set("t4", "table")
          [] c.op = "table6" -> Set("t6", "table")
          [] c.op = "bind"   -> IssueBind(st, n)
          [] c.op = "unbind" -> IssueUnbind(st, n)

\* HW::write with the queue disabled (OM::commit): every command is marked
\* succeeded and nothing reaches VPP
Succeed(st, c) ==
    LET f == CASE c.op = "create" -> "hdl"  [] c.op = "state" -> "state"
               [] c.op = "mac" -> "l2"      [] OTHER -> "table"
    IN  [st EXCEPT !.om[c.n][f].rc = "OK"]

\* HW::write: the queued commands in order
RECURSIVE Write(_, _, _)
Write(st, q, enabled) ==
    IF q = <<>> THEN st
    ELSE Write(IF enabled THEN Issue(st, Head(q)) ELSE Succeed(st, Head(q)),
               Tail(q), enabled)

ZeroMac == "zero"

NoOwner == -1

InitVpp ==
    (LocalHandle :> VppItf(NoOwner, HwMac))
        @@ [h \in {PhysHandle[e] : e \in Ethernets} |->
              VppItf(CHOOSE e \in Ethernets : PhysHandle[e] = h, HwMac)]

\* interface::set(l2_address_t): asserts the address was never set, marks
\* it NOOP and adopts the address
SetL2Address(o, mac) ==
    [o EXCEPT !.l2 = ItemUpdate([@ EXCEPT !.rc = "NOOP"], Item(mac, "NOOP")).i]

\* interface(name, type, state): no route domain, an invalid handle, the
\* default table and an UNSET L2 address
NewInterface(s) ==
    [rd    |-> FALSE,
     hdl   |-> Item(INVALID, "NOOP"),
     state |-> Item(s, "NOOP"),
     l2    |-> Item(ZeroMac, "UNSET"),
     table |-> Item(DEFAULT_TABLE, "NOOP")]

\* interface(name, type, state, rd): the table is the route domain's
NewInterfaceRd(s) == [NewInterface(s) EXCEPT !.rd = TRUE, !.table = Item(RdTable, "NOOP")]

\* the desired object a client builds: one of the two constructors, then
\* set(l2_address_t) when the client gives a MAC
DesiredInterface(n, s, mac) ==
    LET o == IF RdOf[n] THEN NewInterfaceRd(s) ELSE NewInterface(s)
    IN  IF mac = "unset" THEN o ELSE SetL2Address(o, mac)

\* the constructor from a dumped record: VPP's handle, MAC and state
DumpedInterface(h) ==
    [rd    |-> FALSE,
     hdl   |-> Item(h, "NOOP"),
     state |-> Item(vpp[h].admin, "NOOP"),
     l2    |-> Item(vpp[h].mac, "NOOP"),
     table |-> Item(DEFAULT_TABLE, "NOOP")]

\* interface::singular: singular_db::find_or_add keeps an existing object
\* and otherwise stores a copy of the desired one
Singular(st, n, d) ==
    IF n \in DOMAIN st.om THEN st ELSE [st EXCEPT !.om = (n :> d) @@ st.om]

\* mutant: the create is queued whether or not the handle was written
UpdateCreatesAlways(st, n, d) ==
    LET o  == st.om[n]
        us == ItemUpdate(o.state, d.state)
        ul == ItemUpdate(o.l2, d.l2)
    IN  [st |-> [st EXCEPT !.om[n] = [o EXCEPT !.state = us.i, !.l2 = ul.i]],
         q  |-> MkCreateCmd(n)
                \o (IF us.need THEN <<Cmd("state", n)>> ELSE <<>>)
                \o (IF ul.need THEN <<Cmd("mac", n)>> ELSE <<>>)
                \o (IF ~Written(o.table) /\ o.rd
                    THEN <<Cmd("table4", n), Cmd("table6", n)>> ELSE <<>>)]

\* interface::update: create when the handle was never written, then the
\* admin state and the MAC when they change, then the table of a route
\* domain not yet written (IPv4 and IPv6 commands, one item)
Update(st, n, d) ==
    LET o  == st.om[n]
        us == ItemUpdate(o.state, d.state)
        ul == ItemUpdate(o.l2, d.l2)
    IN  [st |-> [st EXCEPT !.om[n] = [o EXCEPT !.state = us.i, !.l2 = ul.i]],
         q  |-> (IF ~Written(o.hdl) THEN MkCreateCmd(n) ELSE <<>>)
                \o (IF us.need THEN <<Cmd("state", n)>> ELSE <<>>)
                \o (IF ul.need THEN <<Cmd("mac", n)>> ELSE <<>>)
                \o (IF ~Written(o.table) /\ o.rd
                    THEN <<Cmd("table4", n), Cmd("table6", n)>> ELSE <<>>)]

\* interface::sweep: back to the default table, admin down, delete, write
Sweep(st, n) ==
    LET o  == st.om[n]
        o1 == [o EXCEPT !.table.d = IF Written(o.table) THEN DEFAULT_TABLE ELSE @,
                        !.state.d = IF Written(o.state) /\ o.state.d = UP THEN DOWN ELSE @]
        q  == (IF Written(o.table) THEN <<Cmd("table4", n), Cmd("table6", n)>> ELSE <<>>)
              \o (IF Written(o.state) /\ o.state.d = UP THEN <<Cmd("state", n)>> ELSE <<>>)
              \o (IF Written(o.hdl) THEN MkDeleteCmd(n) ELSE <<>>)
    IN  Write([st EXCEPT !.om[n] = o1], q, TRUE)

\* mutant: the destructor sweeps but does not release the object from m_db
DestroyInterfaceNoRelease(st, n) == Sweep(st, n)

\* interface::~interface: sweep, then release from m_db
DestroyInterface(st, n) ==
    LET s1 == Sweep(st, n)
    IN  [s1 EXCEPT !.om = [x \in DOMAIN s1.om \ {n} |-> s1.om[x]]]

\* mutant: replay re-creates and re-tables the interface but does not
\* bring it up again
ReplayNoState(st, n) ==
    LET o == st.om[n]
    IN  (IF Written(o.hdl) THEN MkCreateCmd(n) ELSE <<>>)
        \o (IF Written(o.table) THEN <<Cmd("table4", n), Cmd("table6", n)>> ELSE <<>>)

\* mutant: the admin state is queued before the create
ReplayStateFirst(st, n) ==
    LET o == st.om[n]
    IN  (IF Written(o.state) /\ o.state.d = UP THEN <<Cmd("state", n)>> ELSE <<>>)
        \o (IF Written(o.hdl) THEN MkCreateCmd(n) ELSE <<>>)
        \o (IF Written(o.table) THEN <<Cmd("table4", n), Cmd("table6", n)>> ELSE <<>>)

\* interface::replay: create again what was created, bring up what was up,
\* set the table that was set
Replay(st, n) ==
    LET o == st.om[n]
    IN  (IF Written(o.hdl) THEN MkCreateCmd(n) ELSE <<>>)
        \o (IF Written(o.state) /\ o.state.d = UP THEN <<Cmd("state", n)>> ELSE <<>>)
        \o (IF Written(o.table) THEN <<Cmd("table4", n), Cmd("table6", n)>> ELSE <<>>)

\* lldp_binding(const lldp_binding&), the copy find_or_add stores: the
\* interface reference is shared, m_binding starts again as item(0)
NewLldpBinding == "NOOP"

\* lldp_binding::update: bind unless bound
LldpUpdate(st, n) == IF st.lldp[n] = "OK" THEN <<>> ELSE <<Cmd("bind", n)>>

\* lldp_binding::replay: bind again what was bound
LldpReplay(st, n) == IF st.lldp[n] = "OK" THEN <<Cmd("bind", n)>> ELSE <<>>

\* mutant: the destructor releases the binding without unbinding it
DestroyLldpKeepsLldp(st, n) ==
    [st EXCEPT !.lldp = [x \in DOMAIN st.lldp \ {n} |-> st.lldp[x]]]

\* lldp_binding::~lldp_binding: sweep (unbind if bound, write), release
DestroyLldp(st, n) ==
    LET s1 == Write(st, IF st.lldp[n] = "OK" THEN <<Cmd("unbind", n)>> ELSE <<>>, TRUE)
    IN  [s1 EXCEPT !.lldp = [x \in DOMAIN s1.lldp \ {n} |-> s1.lldp[x]]]

St == [om |-> om, vpp |-> vpp, lldp |-> lldp]

Without(f, n) == [x \in DOMAIN f \ {n} |-> f[x]]

\* OM::commit of one dumped interface: find_or_add, update, and a write
\* with the command queue disabled
Commit(st, h) ==
    LET n == st.vpp[h].owner
        d == DumpedInterface(h)
        u == Update(Singular(st, n, d), n, d)
    IN  Write(u.st, u.q, FALSE)

RECURSIVE CommitAll(_, _)
CommitAll(st, hs) ==
    IF hs = <<>> THEN st ELSE CommitAll(Commit(st, Head(hs)), Tail(hs))

Init ==
    /\ om = <<>>
    /\ held = {}
    /\ lldp = <<>>
    /\ vpp = InitVpp
    /\ desired = <<>>
    /\ synced = TRUE
    /\ populated = FALSE
    /\ restarts = 0

\* interface::event_handler::handle_populate: dump VPP's interfaces and
\* commit every one that is not of type LOCAL into the OM (the l3 dump of
\* each is left out)
HandlePopulate ==
    /\ synced
    /\ ~populated
    /\ LET dumped == SetToSortSeq({h \in DOMAIN vpp : h # LocalHandle}, <)
           st     == CommitAll(St, dumped)
       IN  /\ om' = st.om
           /\ desired' = [n \in {vpp[dumped[i]].owner : i \in DOMAIN dumped} |->
                            DumpedInterface(PhysHandle[n])]
    /\ populated' = TRUE
    /\ UNCHANGED <<held, lldp, vpp, synced, restarts>>

Running == populated /\ synced

\* OM::write of a desired interface under the client's key
ClientWrite(n, s, mac) ==
    /\ Running
    /\ LET d  == DesiredInterface(n, s, mac)
           u  == Update(Singular(St, n, d), n, d)
           st == Write(u.st, u.q, TRUE)
       IN  /\ om' = st.om
           /\ vpp' = st.vpp
           /\ desired' = (n :> d) @@ desired
    /\ held' = held \cup {n}
    /\ UNCHANGED <<lldp, synced, populated, restarts>>

\* the object stays alive while the populate key (ports) or a binding
\* holds a reference to it
Referenced(n) == n \in Ethernets \/ n \in DOMAIN lldp

\* OM::remove of the client's key: the last reference runs ~interface
ClientRemove(n) ==
    /\ Running
    /\ n \in held
    /\ held' = held \ {n}
    /\ IF Referenced(n)
       THEN UNCHANGED <<om, vpp, desired>>
       ELSE LET st == DestroyInterface(St, n)
            IN  /\ om' = st.om
                /\ vpp' = st.vpp
                /\ desired' = Without(desired, n)
    /\ UNCHANGED <<lldp, synced, populated, restarts>>

\* OM::write of an lldp_binding on an interface the client holds: the
\* binding's constructor takes itf.singular(); find_or_add; update; write
LldpWrite(n) ==
    /\ Running
    /\ n \in held
    /\ LET st0 == IF n \in DOMAIN lldp THEN St
                  ELSE [St EXCEPT !.lldp = (n :> NewLldpBinding) @@ St.lldp]
           st  == Write(st0, LldpUpdate(st0, n), TRUE)
       IN  /\ lldp' = st.lldp
           /\ vpp' = st.vpp
    /\ UNCHANGED <<om, held, desired, synced, populated, restarts>>

\* OM::remove of the binding: ~lldp_binding, then the interface loses the
\* binding's reference and is destroyed if nothing else holds it
LldpRemove(n) ==
    /\ Running
    /\ n \in DOMAIN lldp
    /\ LET s1   == DestroyLldp(St, n)
           last == n \notin held /\ n \notin Ethernets
           s2   == IF last THEN DestroyInterface(s1, n) ELSE s1
       IN  /\ om' = s2.om
           /\ vpp' = s2.vpp
           /\ lldp' = s2.lldp
           /\ desired' = IF last THEN Without(desired, n) ELSE desired
    /\ UNCHANGED <<held, synced, populated, restarts>>

\* VPP restarts: its virtual interfaces are gone, ports come back down
VppRestart ==
    /\ populated
    /\ restarts < MaxRestarts
    /\ vpp' = InitVpp
    /\ synced' = FALSE
    /\ restarts' = restarts + 1
    /\ UNCHANGED <<om, held, lldp, desired, populated>>

\* OM::replay: the interface listener (dependency INTERFACE) replays m_db in
\* name order, then the binding listener; the queue is written
HandleReplay ==
    /\ ~synced
    /\ LET ns == SetToSortSeq(DOMAIN om, <)
           bs == SetToSortSeq(DOMAIN lldp, <)
           q  == FlattenSeq([i \in DOMAIN ns |-> Replay(St, ns[i])])
                 \o FlattenSeq([i \in DOMAIN bs |-> LldpReplay(St, bs[i])])
           st == Write(St, q, TRUE)
       IN  /\ om' = st.om
           /\ vpp' = st.vpp
           /\ lldp' = st.lldp
    /\ synced' = TRUE
    /\ UNCHANGED <<held, desired, populated, restarts>>

Next ==
    \/ HandlePopulate
    \/ \E n \in Names, s \in {UP, DOWN}, mac \in Macs \cup {"unset"} :
         ClientWrite(n, s, mac)
    \/ \E n \in Names : ClientRemove(n) \/ LldpWrite(n) \/ LldpRemove(n)
    \/ VppRestart
    \/ HandleReplay

Spec == Init /\ [][Next]_vars

-----------------------------------------------------------------------------

TypeOK ==
    /\ DOMAIN om \subseteq Names
    /\ \A n \in DOMAIN om :
         /\ om[n].hdl.d \in Handles \cup {INVALID}
         /\ {om[n][f].rc : f \in {"hdl", "state", "l2", "table"}} \subseteq Rcs
    /\ held \subseteq DOMAIN om
    /\ DOMAIN lldp \subseteq DOMAIN om
    /\ DOMAIN vpp \subseteq Handles
    /\ DOMAIN desired = DOMAIN om
    /\ restarts \in 0 .. MaxRestarts

\* Once the client has replayed after any VPP restart, VPP's virtual
\* interfaces are exactly the ones the OM's objects record as created, one
\* per object: update's create-unless-written, sweep's delete and replay's
\* re-create never leak or duplicate an interface in VPP.
VppMatchesOm ==
    synced =>
      /\ \A h \in DOMAIN vpp :
           vpp[h].owner \in Names \ Ethernets =>
             /\ vpp[h].owner \in DOMAIN om
             /\ om[vpp[h].owner].hdl = Item(h, "OK")
      /\ \A n \in DOMAIN om :
           Written(om[n].hdl) => Present(St, om[n].hdl.d) /\ vpp[om[n].hdl.d].owner = n

\* What the client last wrote for an interface is what VPP holds for it, on
\* the interface VPP created for that object: admin state, the MAC the
\* client set, the route domain's table; across writes, removals, VPP
\* restarts and the replay that follows them.
DesiredProgrammed ==
    synced =>
      \A n \in DOMAIN desired :
        LET d == desired[n]
            h == om[n].hdl.d
        IN  /\ Present(St, h)
            /\ vpp[h].owner = n
            /\ vpp[h].admin = d.state.d
            /\ d.l2.rc # "UNSET" => vpp[h].mac = d.l2.d
            /\ d.rd => vpp[h].t4 = RdTable /\ vpp[h].t6 = RdTable

\* The OM's record of VPP is true: once replayed, every admin-state, MAC
\* and table item of an interface object whose rc is OK holds what VPP has
\* on the object's handle.  interface::update sends only what differs from
\* these items, so an item that claims a value VPP lost (a command left out
\* of replay, a reply applied to the wrong item) is never repaired by a
\* later write of the same desired state.
ItemsTruthful ==
    synced =>
      \A n \in DOMAIN om :
        LET o == om[n]
            h == o.hdl.d
        IN  /\ Written(o.state) => Present(St, h) /\ vpp[h].admin = o.state.d
            /\ Written(o.l2)    => Present(St, h) /\ vpp[h].mac = o.l2.d
            /\ Written(o.table) => Present(St, h) /\ vpp[h].t4 = o.table.d
                                                 /\ vpp[h].t6 = o.table.d

\* A client that writes again what is already in effect changes nothing:
\* while VPP is in sync, a step that leaves every desired interface and
\* the set of bindings as they were (a repeated OM::write, the removal of
\* a key another reference keeps alive, a repeated binding) sends VPP no
\* command that alters it and leaves the OM's items as they were.
\* interface::update decides from the handle, state and table items
\* alone, so a replay that leaves one of them short of OK (or a stale
\* handle) turns the next rewrite into a second create.
WriteIdempotent ==
    [][ /\ synced /\ synced'
        /\ desired' = desired
        /\ DOMAIN lldp' = DOMAIN lldp
        => vpp' = vpp /\ om' = om ]_vars


\* LLDP is enabled in VPP exactly on the interfaces that carry a binding in
\* the OM, through binding, unbinding, interface destruction and replay.
LldpProgrammed ==
    synced =>
      \A h \in DOMAIN vpp :
        vpp[h].lldp <=> \E n \in DOMAIN lldp : om[n].hdl.d = h

=============================================================================
