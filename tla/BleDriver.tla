------------------------------ MODULE BleDriver ------------------------------
(***************************************************************************)
(* The life of the driver: Ble::new and its variants, subscriptions, run   *)
(* futures and Drop (nimble-rs/src/lib.rs), port::init and port::deinit    *)
(* (port.rs), the callback slots, the active parker and the pump           *)
(* registration, which are statics that outlive a driver.                  *)
(*                                                                         *)
(* Drivers are numbered as they are constructed.  A slot holds the number  *)
(* of the driver for whose lifetime its reference was borrowed, 0 if none. *)
(* The prefix Life keeps names apart in DriverProofs.                      *)
(***************************************************************************)
EXTENDS Naturals, FiniteSets

CONSTANTS
  Threads,
  Slots,        \* HOST_CALLBACK, GAP_CALLBACK, ... and the active parker
  MaxDrivers,   \* bound on the drivers constructed
  MaxRuns       \* run futures of one driver at a time

ASSUME DriverAssumption == MaxDrivers \in Nat /\ MaxRuns \in Nat

VARIABLES
  taken,        \* TAKEN
  pc, driver,   \* per thread: where it is, and the driver it makes or owns
  stack,        \* the C host: "down", "changing" or "up"
  cfg,          \* the callbacks in ble_hs_cfg
  slot,         \* the process-wide slots
  svcs,         \* the driver whose service table the C host refers to
  alive,        \* drivers whose borrows, services included, have not ended
  leaked,       \* a driver was leaked with mem::forget
  made,         \* drivers constructed or attempted
  runs, fut     \* run futures of the driver; the one whose pump is registered

slotVars == <<slot, svcs, cfg>>
runVars  == <<runs, fut>>
lifeVars == <<taken, pc, driver, stack, slotVars, alive, leaked, made, runVars>>

LifeInit ==
  /\ taken = FALSE
  /\ pc = [t \in Threads |-> "idle"] /\ driver = [t \in Threads |-> 0]
  /\ stack = "down" /\ cfg = {}
  /\ slot = [s \in Slots |-> 0] /\ svcs = 0
  /\ alive = {} /\ leaked = FALSE /\ made = 0
  /\ runs = {} /\ fut = 0

Goto(t, at) == pc' = [pc EXCEPT ![t] = at]

-----------------------------------------------------------------------------
(***************************************************************************)
(* Construction.                                                           *)
(***************************************************************************)

\* Ble::init takes the singleton flag; a second driver gets BLE_HS_EALREADY.
Take(t) ==
  /\ pc[t] = "idle" /\ made < MaxDrivers
  /\ ~taken /\ taken' = TRUE
  /\ made' = made + 1
  /\ driver' = [driver EXCEPT ![t] = made']
  /\ alive' = alive \cup {made'}
  /\ Goto(t, "init")
  /\ UNCHANGED <<stack, slotVars, leaked, runVars>>

\* port::init begins; ble_buf_alloc fails and what it got is freed, or the
\* rest of the stack is brought up.
PortInit(t) ==
  /\ pc[t] = "init"
  /\ \/ stack' = "changing" /\ Goto(t, "initialising")
     \/ UNCHANGED stack /\ Goto(t, "release")
  /\ UNCHANGED <<taken, driver, slotVars, alive, leaked, made, runVars>>

PortInitDone(t) ==
  /\ pc[t] = "initialising"
  /\ stack' = "up"
  /\ Goto(t, "configure")
  /\ UNCHANGED <<taken, driver, slotVars, alive, leaked, made, runVars>>

\* The rest of Ble::init; the constructor without services is done.
Configure(t) ==
  /\ pc[t] = "configure"
  /\ cfg' = cfg \cup {"sync_cb", "reset_cb"}
  /\ \E at \in {"ready", "services"} : Goto(t, at)
  /\ UNCHANGED <<taken, driver, stack, slot, svcs, alive, leaked, made, runVars>>

\* new_with_services; services that do not register, entirely or in part,
\* take the way of Drop.
AddServices(t) ==
  /\ pc[t] = "services"
  /\ cfg' = cfg \cup {"gatts_register_cb"}
  /\ \/ svcs' = driver[t] /\ Goto(t, "ready")
     \/ svcs' \in {svcs, driver[t]} /\ Goto(t, "drop")
  /\ UNCHANGED <<taken, driver, stack, slot, alive, leaked, made, runVars>>

-----------------------------------------------------------------------------
(***************************************************************************)
(* Use.  Every thread that has a reference to the driver may subscribe,    *)
(* and the owner may not drop it while a run future borrows it.            *)
(***************************************************************************)
Ready(t) == pc[t] = "ready"

\* A callback is subscribed, or new_with_parker installs its parker.
SetSlot(s) ==
  /\ \E t \in Threads : Ready(t) /\ slot' = [slot EXCEPT ![s] = driver[t]]
  /\ UNCHANGED <<taken, pc, driver, stack, svcs, cfg, alive, leaked, made, runVars>>

ClearSlot(s) ==
  /\ \E t \in Threads : Ready(t)
  /\ slot[s] # 0
  /\ slot' = [slot EXCEPT ![s] = 0]
  /\ UNCHANGED <<taken, pc, driver, stack, svcs, cfg, alive, leaked, made, runVars>>

\* Ble::run registers its pump ...
StartRun(r) ==
  /\ \E t \in Threads : Ready(t)
  /\ r \notin runs /\ Cardinality(runs) < MaxRuns
  /\ runs' = runs \cup {r}
  /\ fut' = r
  /\ UNCHANGED <<taken, pc, driver, stack, slotVars, alive, leaked, made>>

\* Fault: the registration is not removed.
DropRunKeeps(r) ==
  /\ r \in runs
  /\ runs' = runs \ {r}
  /\ UNCHANGED <<taken, pc, driver, stack, slotVars, alive, leaked, made, fut>>

\* ... and PumpGuard removes the registration with the future.
DropRun(r) ==
  /\ r \in runs
  /\ runs' = runs \ {r}
  /\ fut' = 0
  /\ UNCHANGED <<taken, pc, driver, stack, slotVars, alive, leaked, made>>

\* mem::forget ends the borrows and runs no destructor.
Forget(t) ==
  /\ Ready(t) /\ runs = {}
  /\ leaked' = TRUE
  /\ alive' = alive \ {driver[t]}
  /\ driver' = [driver EXCEPT ![t] = 0]
  /\ Goto(t, "idle")
  /\ UNCHANGED <<taken, stack, slotVars, made, runVars>>

-----------------------------------------------------------------------------
(***************************************************************************)
(* Drop.                                                                   *)
(***************************************************************************)
BeginDrop(t) ==
  /\ Ready(t) /\ runs = {}
  /\ Goto(t, "drop")
  /\ UNCHANGED <<taken, driver, stack, slotVars, alive, leaked, made, runVars>>

\* Fault: Drop forgets a slot.
ClearAllButOne(t) ==
  /\ pc[t] = "drop"
  /\ cfg' = {}
  /\ \E s \in Slots : slot' = [x \in Slots |-> IF x = s THEN slot[x] ELSE 0]
  /\ Goto(t, "deinit")
  /\ UNCHANGED <<taken, driver, stack, svcs, alive, leaked, made, runVars>>

\* Drop resets the host's callbacks, the parker and every slot.
ClearAll(t) ==
  /\ pc[t] = "drop"
  /\ cfg' = {}
  /\ slot' = [s \in Slots |-> 0]
  /\ Goto(t, "deinit")
  /\ UNCHANGED <<taken, driver, stack, svcs, alive, leaked, made, runVars>>

\* Fault: the flag is released before the stack is down.
PortDeinitReleased(t) ==
  /\ pc[t] = "deinit"
  /\ stack' = "changing" /\ taken' = FALSE
  /\ Goto(t, "deinitialising")
  /\ UNCHANGED <<driver, slotVars, alive, leaked, made, runVars>>

\* port::deinit, to the end of which the host refers to the services.
PortDeinit(t) ==
  /\ pc[t] = "deinit"
  /\ stack' = "changing"
  /\ Goto(t, "deinitialising")
  /\ UNCHANGED <<taken, driver, slotVars, alive, leaked, made, runVars>>

PortDeinitDone(t) ==
  /\ pc[t] = "deinitialising"
  /\ stack' = "down" /\ svcs' = 0
  /\ Goto(t, "release")
  /\ UNCHANGED <<taken, driver, slot, cfg, alive, leaked, made, runVars>>

\* The flag is released last; then the services, a field, go.
Release(t) ==
  /\ pc[t] = "release"
  /\ taken' = FALSE
  /\ alive' = alive \ {driver[t]}
  /\ driver' = [driver EXCEPT ![t] = 0]
  /\ Goto(t, "idle")
  /\ UNCHANGED <<stack, slotVars, leaked, made, runVars>>

-----------------------------------------------------------------------------
Step(t) ==
  \/ PortInit(t) \/ PortInitDone(t) \/ Configure(t) \/ AddServices(t)
  \/ ClearAll(t) \/ PortDeinit(t) \/ PortDeinitDone(t) \/ Release(t)

RunIds == 1..MaxRuns

LifeNext ==
  \/ \E t \in Threads : Take(t) \/ Step(t) \/ Forget(t) \/ BeginDrop(t)
  \/ \E s \in Slots : SetSlot(s) \/ ClearSlot(s)
  \/ \E r \in RunIds : StartRun(r) \/ DropRun(r)

LifeSpec == LifeInit /\ [][LifeNext]_lifeVars

-----------------------------------------------------------------------------
Ids == 0..MaxDrivers

\* What a thread that has the flag finds the C host to be.
StackAt(at) ==
  CASE at \in {"init", "release"} -> "down"
    [] at \in {"initialising", "deinitialising"} -> "changing"
    [] OTHER -> "up"

LifeTypeOK ==
  /\ taken \in BOOLEAN /\ leaked \in BOOLEAN
  /\ pc \in [Threads -> {"idle", "init", "initialising", "configure", "services",
                         "ready", "drop", "deinit", "deinitialising", "release"}]
  /\ driver \in [Threads -> Ids]
  /\ stack \in {"down", "changing", "up"}
  /\ cfg \subseteq {"sync_cb", "reset_cb", "gatts_register_cb"}
  /\ slot \in [Slots -> Ids] /\ svcs \in Ids
  /\ alive \subseteq Ids /\ made \in Ids
  /\ runs \subseteq RunIds /\ fut \in RunIds \cup {0}
  /\ \A t \in Threads :
       /\ pc[t] = "idle" <=> driver[t] = 0
       /\ pc[t] # "idle" => stack = StackAt(pc[t])

(***************************************************************************)
(* One thread at a time has the stack, and the flag is taken as long as    *)
(* one has it or the driver was leaked (lib.rs:263-267, 486-495, 614):     *)
(* nobody initialises what another still tears down, and no failure keeps  *)
(* the flag.                                                               *)
(***************************************************************************)
OneDriver ==
  /\ \A t, u \in Threads : pc[t] # "idle" /\ pc[u] # "idle" => t = u
  /\ taken <=> leaked \/ \E t \in Threads : pc[t] # "idle"

(***************************************************************************)
(* While the host can run, the process-wide slots and the host's service   *)
(* table refer only to what is still borrowed or owned by a driver that    *)
(* exists (lib.rs:412-422, 586-615).                                       *)
(***************************************************************************)
HostRuns == \E t \in Threads : pc[t] # "idle"

NoDangling ==
  HostRuns => /\ \A s \in Slots : slot[s] # 0 => slot[s] \in alive
              /\ svcs # 0 => svcs \in alive

(***************************************************************************)
(* When the flag is free a new driver finds everything as the first one    *)
(* did: no callback, parker, service table, pump or host left (the failing *)
(* constructors included, lib.rs:459-465, 492-495).                        *)
(***************************************************************************)
FreshWhenFree ==
  ~taken => /\ stack = "down" /\ cfg = {} /\ svcs = 0
            /\ slot = [s \in Slots |-> 0]
            /\ runs = {} /\ fut = 0
==============================================================================
