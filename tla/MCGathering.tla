----------------------------- MODULE MCGathering -----------------------------
(* Two GPUs of one name, of which three families are sent: the one uses its *)
(* cores more, the other its memory, and the version has a label of its own.*)
EXTENDS Gathering

Pair(n, v) == [name |-> n, value |-> v]

M(name, label, v) == [name |-> name, metric |-> [label |-> label, gauge |-> [value |-> v]]]

\* the names of labels in their order
devicename == 1
deviceuuid == 2
metricType == 3
version    == 4

MCWrapping == Pair(metricType, 1)

Device(uuid) == <<Pair(devicename, 1), Pair(deviceuuid, uuid)>>

OfDevice(uuid, core, memory) ==
  <<M("core", Device(uuid), core),
    M("version", Append(Device(uuid), Pair(version, 5)), 0),
    M("memory", Device(uuid), memory)>>

\* the sample of a second process
AndProcess(uuid, memory) == <<M("memory", Device(uuid), memory)>>

\* none; one; two in either order; one shared, before and after another; NaN
MCCollections ==
  { <<>>, OfDevice(1, 7, 3),
    OfDevice(1, 7, 3) \o OfDevice(2, 3, 7), OfDevice(2, 3, 7) \o OfDevice(1, 7, 3),
    OfDevice(1, 7, 3) \o AndProcess(1, 7) \o OfDevice(2, 3, 7),
    OfDevice(1, 7, 3) \o OfDevice(2, 3, 7) \o AndProcess(2, 3),
    OfDevice(1, 7, NaN) \o OfDevice(2, 3, 7) }
=============================================================================
