---- MODULE MCMmChannel ----
(* A channel of a metadata and a snapshot stream with two buffers each, once *)
(* for ZSL snapshots (bursts) and once for a low priority snapshot.          *)
EXTENDS MmChannel
CONSTANTS meta, snap
Order == <<meta, snap>>
ZslAttr == [notify_mode |-> "BURST", look_back |-> 1, post_frame_skip |-> 1, water_mark |-> 1,
            max_unmatched_frames |-> 1, priority |-> "NORMAL"]
SnapshotAttr == [ZslAttr EXCEPT !.notify_mode = "CONTINUOUS", !.priority = "LOW"]
BothAttrs == {ZslAttr, SnapshotAttr}
DivertedInfos == {[what |-> "diverted", frame |-> 2], [what |-> "needFuture", frame |-> 0]}
RetroRequest == {<<2, 1>>}
====
