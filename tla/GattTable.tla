------------------------------- MODULE GattTable -------------------------------
(***************************************************************************)
(* GATT service tables as the C host reads them: null-terminated arrays of *)
(* service definitions that point to null-terminated arrays of             *)
(* characteristic definitions, and to UUIDs.                               *)
(*                                                                         *)
(* NewTable is BleGattServices::new (nimble-rs/src/gatt/server.rs), which  *)
(* lays everything out in four flat arrays; StaticTable is what the macro  *)
(* gatt_services! expands to.  Walk is how a reader of the C structures    *)
(* finds the services again, Attributes the handles the C host gives them. *)
(***************************************************************************)
EXTENDS Naturals, Sequences, SequencesExt, FiniteSetsExt

\* A pointer names an array, a block of that name and a position from 0.  A
\* zeroed definition, whose UUID is the null pointer, is the terminator.
ZERO == [uuid |-> << >>]
GARBAGE == [uuid |-> <<"garbage">>]

\* The flags, in the order of their bits.
Flags == <<"Broadcast", "Read", "WriteNoRsp", "Write", "Notify", "Indicate",
           "AuthSignWrite", "ReliableWrite", "AuxWrite", "ReadEnc", "ReadAuthen",
           "ReadAuthor", "WriteEnc", "WriteAuthen", "WriteAuthor",
           "NotifyIndicateEnc", "NotifyIndicateAuthen", "NotifyIndicateAuthor">>

Characteristics == [uuid : STRING, flags : SUBSET ToSet(Flags)]
Services == [primary : BOOLEAN, uuid : STRING, chrs : Seq(Characteristics)]

\* A word is the set of its bits: each flag has its own, and or is union.
repr(flag) == {CHOOSE i \in 1..Len(Flags) : Flags[i] = flag}

flags_to_repr(flags) == UNION {repr(flag) : flag \in flags}

HasFlag(bits, flag) == repr(flag) \subseteq bits

make_svc(primary, uuid, chrs) ==
  [type |-> IF primary THEN 1 ELSE 2, uuid |-> uuid, chrs |-> chrs]

make_chr(uuid, flags) == [uuid |-> uuid, flags |-> flags_to_repr(flags)]

-----------------------------------------------------------------------------
(* The table built at run time.                                            *)

\* How many characteristics the first i services have.
CharsUpTo(services) ==
  LET sum[i \in 0..Len(services)] ==
        IF i = 0 THEN 0 ELSE sum[i - 1] + Len(services[i].chrs)
  IN  sum

total_chars(services) == CharsUpTo(services)[Len(services)]

\* The lengths of the four allocations, in the order they are made.
Lengths(services) ==
  [chars     |-> total_chars(services),
   svc_uuids |-> Len(services),
   chr_defs  |-> total_chars(services) + Len(services),
   svc_defs  |-> Len(services) + 1]

Zeroed(n) == [i \in 1..n |-> ZERO]

\* The arrays while they are filled, and the next free place of each.
Empty(len) ==
  [chars |-> Zeroed(len.chars), svc_uuids |-> Zeroed(len.svc_uuids),
   chr_defs |-> Zeroed(len.chr_defs), svc_defs |-> Zeroed(len.svc_defs),
   char_at |-> 0, def_at |-> 0, svc_at |-> 0]

AddChr(t, chr) ==
  [t EXCEPT !.chars[t.char_at + 1] = chr,
            !.chr_defs[t.def_at + 1] = make_chr(<<"chars", 0, t.char_at>>, chr.flags),
            !.char_at = @ + 1, !.def_at = @ + 1]

AddChrs(t, chrs) ==
  LET after[j \in 0..Len(chrs)] == IF j = 0 THEN t ELSE AddChr(after[j - 1], chrs[j])
  IN  after[Len(chrs)]

AddSvc(t, s) ==
  [t EXCEPT !.svc_uuids[t.svc_at + 1] = [uuid |-> s.uuid],
            !.svc_defs[t.svc_at + 1] =
               make_svc(s.primary, <<"svc_uuids", 0, t.svc_at>>, <<"chr_defs", 0, t.def_at>>)]

\* Fault: the place of the terminator is not skipped.
AddServiceUnterminated(t, s) == [AddChrs(AddSvc(t, s), s.chrs) EXCEPT !.svc_at = @ + 1]

AddService(t, s) ==
  [AddChrs(AddSvc(t, s), s.chrs) EXCEPT !.def_at = @ + 1, !.svc_at = @ + 1]

AddSvcs(services) ==
  LET after[i \in 0..Len(services)] ==
        IF i = 0 THEN Empty(Lengths(services)) ELSE AddService(after[i - 1], services[i])
  IN  after[Len(services)]

NewTable(services) ==
  LET t == AddSvcs(services)
  IN  [a \in DOMAIN Lengths(services) |-> [block \in {0} |-> t[a]]]

-----------------------------------------------------------------------------
(* The static table: every UUID and every service's characteristics are    *)
(* statics of their own, closed by a sentinel.                             *)

StaticTable(services) ==
  LET n == Len(services)
      Uuids(f) == [j \in 1..Len(f) |-> [uuid |-> f[j].uuid]]
      ChrDefs(i) == [j \in 1..Len(services[i].chrs) |->
                       make_chr(<<"U", i, j - 1>>, services[i].chrs[j].flags)]
      SvcDefs == [i \in 1..n |->
                    make_svc(services[i].primary, <<"U", 0, i - 1>>, <<"CHRS", i, 0>>)]
  IN  [svc_defs |-> [block \in {0} |-> Append(SvcDefs, ZERO)],
       CHRS     |-> [block \in 1..n |-> Append(ChrDefs(block), ZERO)],
       U        |-> [block \in 0..n |->
                       Uuids(IF block = 0 THEN services ELSE services[block].chrs)]]

-----------------------------------------------------------------------------
(* Reading a table.  Past the end of an array there is no telling.         *)

Deref(mem, p) ==
  LET block == mem[p[1]][p[2]]
  IN  IF p[3] < Len(block) THEN block[p[3] + 1] ELSE GARBAGE

\* The entries from p up to the terminator.
Entries(mem, p) ==
  LET Entry(k) == Deref(mem, <<p[1], p[2], p[3] + k>>)
      len  == Min({k \in 0..Len(mem[p[1]][p[2]]) : Entry(k).uuid \in {ZERO.uuid, GARBAGE.uuid}})
      body == [k \in 1..len |-> Entry(k - 1)]
  IN  IF Entry(len).uuid = ZERO.uuid THEN body ELSE Append(body, GARBAGE)

WalkChr(mem, d) ==
  IF d.uuid = GARBAGE.uuid THEN d
  ELSE [uuid |-> Deref(mem, d.uuid).uuid, flags |-> {f \in ToSet(Flags) : HasFlag(d.flags, f)}]

WalkChrs(mem, p) ==
  LET defs == Entries(mem, p)
  IN  [j \in 1..Len(defs) |-> WalkChr(mem, defs[j])]

Walk(mem) ==
  LET defs == Entries(mem, <<"svc_defs", 0, 0>>)
  IN  [i \in 1..Len(defs) |->
         [primary |-> defs[i].type = 1, uuid |-> Deref(mem, defs[i].uuid).uuid,
          chrs |-> WalkChrs(mem, defs[i].chrs)]]

-----------------------------------------------------------------------------
(* The attributes the C host makes of the services it walked: a service,   *)
(* then for each characteristic its declaration, its value and, when it    *)
(* can notify or indicate, the CCCD.  Handles count up from 1.             *)

Width(c) == IF c.flags \cap {"Notify", "Indicate"} # {} THEN 3 ELSE 2

Attrs == [uuid : STRING, flags : SUBSET ToSet(Flags), svc : Nat, def : Nat, val : Nat]

AddAttribute(db, svc, c) ==
  [next |-> db.next + Width(c),
   chrs |-> Append(db.chrs, [uuid |-> c.uuid, flags |-> c.flags, svc |-> svc,
                             def |-> db.next, val |-> db.next + 1])]

AddAttributes(db, svc, s) ==
  LET after[j \in 0..Len(s.chrs)] ==
        IF j = 0 THEN [next |-> db.next + 1, chrs |-> db.chrs]
        ELSE AddAttribute(after[j - 1], svc, s.chrs[j])
  IN  after[Len(s.chrs)]

\* The database after each service.
Database(services) ==
  LET after[i \in 0..Len(services)] ==
        IF i = 0 THEN [next |-> 1, chrs |-> << >>]
        ELSE AddAttributes(after[i - 1], i, services[i])
  IN  after

Attributes(services) == Database(services)[Len(services)].chrs

\* The handles of service i: from its own to the one before the next service.
Group(services, i) ==
  [start |-> Database(services)[i - 1].next, end |-> Database(services)[i].next - 1]
=============================================================================
