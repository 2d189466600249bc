------------------------------ MODULE RpuRpmsg ------------------------------
(***************************************************************************)
(* The rpmsg devices of RPU slots (src/src/rpu.c, rpu_helper.c and the RPU *)
(* parts of list_accel_uio(), get_accel_uio_by_name() and remove_          *)
(* accelerator() in daemon_helper.c).                                      *)
(*                                                                         *)
(* Firmware that talks rpmsg makes the kernel create a virtio device with  *)
(* a control device and, at any time, channels.  The daemon is not told    *)
(* which: after a load it takes the first control device no slot has       *)
(* recorded, and from then on the channels with the same virtio number are *)
(* the slot's.  A client that asks for the devices of a slot makes it look *)
(* for new and for deleted channels and set up an endpoint for the new.    *)
(*                                                                         *)
(* The request thread is alone in this code, so a request is one step; the *)
(* firmware creates and deletes channels between requests, and may be late *)
(* with its control device.  A channel name (service and addresses) is a   *)
(* member of Chans; a virtio number stands for its control device's name.  *)
(*                                                                         *)
(* A setting is what the firmware does and what may fail.  Behaviours of   *)
(* all Settings are considered; a behaviour keeps the one it starts with.  *)
(*                                                                         *)
(* An operator whose comment starts with "Faulty" is no part of the model: *)
(* it is a slip the code could contain, put in place of the operator that  *)
(* follows it to see that the properties notice.                           *)
(***************************************************************************)
EXTENDS Integers, Sequences, FiniteSets, SequencesExt

CONSTANTS
    Slots,      \* RPU slots, 0 .. num_pl_slots - 1
    Chans,      \* channel names
    Settings,
    NULL

Setting ==
    [firmware: SUBSET {"rpmsg", "late", "plain"},  \* kinds of firmware loaded
     service: [Chans -> Chans],       \* the service part of each channel name
     prefix: SUBSET (Chans \X Chans), \* pairs, the first of which starts the second
     chans: SUBSET Chans,             \* channels that are created
     may_fail: SUBSET {"setup",       \* an endpoint cannot be set up,
                       "stop"},       \* nor firmware stopped
     max_changes: Nat,                \* bound: channels created and deleted
     max_epts: Nat]                   \* bound: endpoint devices (nothing removes
                                      \* one before its firmware stops)

\* What base->slots[] may hold of a slot: the virtio number of its control
\* device (-1: no name), its virtio number, and its list of channels with the
\* numbers of their endpoint devices.
Numbers == 0 .. 2 * Cardinality(Slots)
Row == [chan: Chans, ept: Nat]
SlotRec == [ctrl: Numbers \cup {-1}, virtio: Numbers, list: Seq(Row)]

ASSUME RpmsgAssumption ==
    /\ IsFiniteSet(Slots) /\ IsFiniteSet(Chans)
    /\ NULL \notin Slots /\ NULL \notin SlotRec
    /\ \A e \in Settings : e \in Setting

VARIABLES
    setting,    \* the setting
    fw,         \* what runs on each RPU: its virtio number, or none (-1)
    ctrls,      \* virtio numbers with a control device
    chans,      \* <<virtio number, channel>> in /sys/bus/rpmsg/devices
    epts,       \* endpoint devices: /dev/rpmsg<n>, of which control device,
                \* for which channel
    slots,      \* base->slots[]: rpmsg_ctrl_dev_name, virtio_num and list of
                \* each loaded slot, or NULL
    freed,      \* what freed slots left in memory
    out,        \* the last reply: slot, channels asked for, rows, channels that
                \* could not be set up
    changes

vars == <<setting, fw, ctrls, chans, epts, slots, freed, out, changes>>

MayFail == setting.may_fail
Service == setting.service
Prefix == setting.prefix

Lowest(S) == CHOOSE n \in S : \A m \in S : n <= m

\* One conjunct per variable; a channel is in a slot's list at most once.
TypeOK ==
    /\ setting \in Settings
    /\ fw \in [Slots -> [run: BOOLEAN, virtio: Numbers \cup {-1}]]
    /\ ctrls \subseteq Numbers
    /\ chans \subseteq Numbers \X Chans
    /\ \A e \in epts : e.n \in Nat /\ e.ctrl \in Numbers /\ e.chan \in Chans
    /\ \A s \in Slots : slots[s] # NULL =>
          /\ slots[s] \in SlotRec
          /\ IsInjective([i \in DOMAIN slots[s].list |-> slots[s].list[i].chan])
    /\ changes \in 0 .. setting.max_changes

Zeroes == [ctrl |-> -1, virtio |-> 0]

Init ==
    /\ setting \in Settings
    /\ fw = [s \in Slots |-> [run |-> FALSE, virtio |-> -1]]
    /\ ctrls = {} /\ chans = {} /\ epts = {}
    /\ slots = [s \in Slots |-> NULL]
    /\ freed = {Zeroes}
    /\ out = [slot |-> NULL, asked |-> {}, rows |-> {}, failed |-> {}]
    /\ changes = 0

-----------------------------------------------------------------------------
(* The firmware and the kernel (external).                                 *)

\* The control device of late firmware appears after the load.
announce(s) ==
    /\ fw[s].virtio >= 0 /\ fw[s].virtio \notin ctrls
    /\ ctrls' = ctrls \cup {fw[s].virtio}
    /\ UNCHANGED <<setting, fw, chans, epts, slots, freed, out, changes>>

new_channel(s, c) ==
    /\ fw[s].virtio \in ctrls /\ <<fw[s].virtio, c>> \notin chans
    /\ changes < setting.max_changes /\ changes' = changes + 1
    /\ chans' = chans \cup {<<fw[s].virtio, c>>}
    /\ UNCHANGED <<setting, fw, ctrls, epts, slots, freed, out>>

\* An endpoint is a child of the control device and outlives the channel.
del_channel(s, c) ==
    /\ <<fw[s].virtio, c>> \in chans
    /\ changes < setting.max_changes /\ changes' = changes + 1
    /\ chans' = chans \ {<<fw[s].virtio, c>>}
    /\ UNCHANGED <<setting, fw, ctrls, epts, slots, freed, out>>

FreeNumber == Lowest(Numbers \ {fw[s].virtio : s \in Slots})

-----------------------------------------------------------------------------
(* Loading and unloading.                                                  *)

\* Faulty: any control device will do.
new_ctrl_devs_any(present) == present

\* Control devices no slot has recorded; the first one readdir() gives is
\* taken.
new_ctrl_devs(present) ==
    present \ {slots[s].ctrl : s \in {t \in Slots : slots[t] # NULL}}

\* Firmware is started and given time; a control device found then is the
\* slot's.  If there is none, name and number keep what malloc() returned:
\* zeroes or what a freed slot left.
load(s, kind) ==
    LET v == IF kind = "plain" THEN -1 ELSE FreeNumber
        now == IF kind = "rpmsg" THEN ctrls \cup {v} ELSE ctrls
        news == new_ctrl_devs(now)
    IN
    /\ slots[s] = NULL /\ ~fw[s].run
    /\ fw' = [fw EXCEPT ![s] = [run |-> TRUE, virtio |-> v]]
    /\ ctrls' = now
    /\ \E rec \in IF news # {} THEN {[ctrl |-> n, virtio |-> n] : n \in news} ELSE freed :
          slots' = [slots EXCEPT ![s] = [ctrl |-> rec.ctrl, virtio |-> rec.virtio,
                                         list |-> <<>>]]
    /\ UNCHANGED <<setting, chans, epts, freed, out, changes>>

\* What stopping the firmware may come to.
remove_rpu == {TRUE} \cup {"stop" \notin MayFail}

\* Stopping the firmware removes its devices.  The slot and its list are given
\* up even if the firmware could not be stopped.
unload(s) ==
    /\ slots[s] # NULL
    /\ \E stopped \in remove_rpu :
          LET v == IF stopped THEN fw[s].virtio ELSE -1
          IN  /\ fw' = IF stopped THEN [fw EXCEPT ![s] = [run |-> FALSE, virtio |-> -1]]
                       ELSE fw
              /\ ctrls' = ctrls \ {v}
              /\ chans' = {x \in chans : x[1] # v}
              /\ epts' = {e \in epts : e.ctrl # v}
    /\ slots' = [slots EXCEPT ![s] = NULL]
    /\ freed' = freed \cup {[ctrl |-> slots[s].ctrl, virtio |-> slots[s].virtio]}
    /\ UNCHANGED <<setting, out, changes>>

-----------------------------------------------------------------------------
(* The list of a slot.                                                     *)

\* Faulty: the first endpoint of the control device.
get_rpmsg_ept_dev_any(es, ctrl, c) == Lowest({e.n : e \in {x \in es : x.ctrl = ctrl}})

\* The first endpoint of the control device that has the channel's service
\* name.
get_rpmsg_ept_dev(es, ctrl, c) ==
    Lowest({e.n : e \in {x \in es : x.ctrl = ctrl /\ Service[x.chan] = Service[c]}})

\* check_rpmsg_dev_active(): the first entry whose name starts with the name of
\* the device is taken for it.
recorded(list, c) ==
    LET same == {i \in DOMAIN list : list[i].chan = c \/ <<c, list[i].chan>> \in Prefix}
    IN  IF same = {} THEN {} ELSE {Lowest(same)}

\* A channel can be given the driver rpmsg_chrdev unless it has another.
bind_rpmsg_chrdev(t, c) == c \notin t.failed

get_rpmsg_chrdev_fd(ctrl) == ctrl \in ctrls

\* The kernel gives the endpoint the lowest free number.
app_rpmsg_create_ept(es, ctrl, c) ==
    es \cup {[n |-> Lowest((0 .. Cardinality(es)) \ {e.n : e \in es}),
              ctrl |-> ctrl, chan |-> c]}

\* The endpoints afterwards; none is made without driver or control device.
setup_rpmsg_ept_dev(t, ctrl, c) ==
    IF bind_rpmsg_chrdev(t, c) /\ get_rpmsg_chrdev_fd(ctrl)
    THEN app_rpmsg_create_ept(t.epts, ctrl, c) ELSE t.epts

create_rpmsg_dev(t, ctrl, c) ==
    LET es == setup_rpmsg_ept_dev(t, ctrl, c)
    IN  IF es = t.epts THEN [t EXCEPT !.failed = @ \cup {c}]
        ELSE [t EXCEPT !.epts = es, !.active = @ \cup {Len(t.list) + 1},
                       !.list = Append(@, [chan |-> c,
                                           ept |-> get_rpmsg_ept_dev(es, ctrl, c)])]

\* Faulty: entries of deleted channels stay.
delete_inactive_none(t) == t.list

delete_inactive(t) ==
    [i \in 1 .. Cardinality(t.active) |->
        t.list[CHOOSE k \in t.active : Cardinality({j \in t.active : j <= k}) = i]]

\* Faulty: a recorded channel is marked, and set up again.
visit_dev_no_continue(t, ctrl, c) ==
    create_rpmsg_dev([t EXCEPT !.active = @ \cup recorded(t.list, c)], ctrl, c)

\* A channel that is recorded is marked active, another one created.
visit_dev(t, ctrl, c) ==
    IF recorded(t.list, c) # {}
    THEN [t EXCEPT !.active = @ \cup recorded(t.list, c)]
    ELSE create_rpmsg_dev(t, ctrl, c)

\* The channels are visited in readdir() order.  failed: the ones that cannot
\* be set up.
update_rpmsg_dev_list(slot, order, failed) ==
    LET t[i \in 0 .. Len(order)] ==
            IF i = 0 THEN [list |-> slot.list, active |-> {}, epts |-> epts, failed |-> failed]
            ELSE visit_dev(t[i - 1], slot.ctrl, order[i])
    IN  t[Len(order)]

Found(v) == {c \in Chans : <<v, c>> \in chans}

\* The list is brought up to date, then the entries of some channels reported.
refresh(s, asked) ==
    /\ slots[s] # NULL
    /\ \E order \in SetToSeqs(Found(slots[s].virtio)),
          failed \in IF "setup" \in MayFail THEN SUBSET Found(slots[s].virtio) ELSE {{}} :
          LET t == update_rpmsg_dev_list(slots[s], order, failed)
              rows == ToSet(delete_inactive(t))
          IN  /\ Cardinality(t.epts) <= setting.max_epts
              /\ slots' = [slots EXCEPT ![s].list = delete_inactive(t)]
              /\ epts' = t.epts
              /\ out' = [slot |-> s, asked |-> asked, failed |-> t.failed,
                         rows |-> {r \in rows : r.chan \in asked}]
    /\ UNCHANGED <<setting, fw, ctrls, chans, freed, changes>>

\* For the handle of an RPU slot.
list_accel_uio(s) == refresh(s, Chans)

get_accel_uio_by_name(s, name) == refresh(s, {name})

Next ==
    \/ \E s \in Slots : announce(s)
    \/ \E s \in Slots, c \in setting.chans : new_channel(s, c)
    \/ \E s \in Slots, c \in setting.chans : del_channel(s, c)
    \/ \E s \in Slots, kind \in setting.firmware : load(s, kind)
    \/ \E s \in Slots : unload(s)
    \/ \E s \in Slots : list_accel_uio(s)
    \/ \E s \in Slots, name \in setting.chans : get_accel_uio_by_name(s, name)

Spec == Init /\ [][Next]_vars

-----------------------------------------------------------------------------
(* Properties.                                                             *)

\* A slot's number is that of its own firmware, so that no slot lists or talks
\* to the channels of another RPU (finalize_rpu_slot_setup(),
\* get_new_rpmsg_ctrl_dev()).  This holds if all firmware makes its control
\* device in time and is stopped when its slot is unloaded.
InTime == setting.firmware = {"rpmsg"} /\ "stop" \notin MayFail
OwnDevices ==
    InTime => \A s \in Slots : slots[s] # NULL /\ Found(slots[s].virtio) # {}
                        => slots[s].virtio = fw[s].virtio

\* What the reply o names, against the channels of its slot that are there.
Current(o) ==
    LET now == Found(slots[o.slot].virtio) \cap o.asked
    IN  /\ {r.chan : r \in o.rows} \subseteq now
        /\ now \ o.failed \subseteq {r.chan : r \in o.rows}

\* A reply names exactly the channels asked for that the slot's number has at
\* that moment, but for those that could not be set up just now, whatever was
\* created and deleted since the last reply (update_rpmsg_dev_list()), if no
\* channel name starts another.
ListCurrent == [][out' # out /\ Prefix = {} => Current(out')]_vars

\* The device a slot keeps for a channel is an endpoint of that channel, on the
\* slot's own control device (setup_rpmsg_ept_dev(), get_rpmsg_ept_dev_name()),
\* if no two channels have one service.
EndpointOfChannel ==
    InTime /\ IsInjective(Service) => \A s \in Slots : slots[s] # NULL =>
        \A i \in DOMAIN slots[s].list :
            \E e \in epts : /\ e.n = slots[s].list[i].ept
                            /\ e.chan = slots[s].list[i].chan
                            /\ e.ctrl = slots[s].virtio
=============================================================================
