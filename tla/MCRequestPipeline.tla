--------------------------- MODULE MCRequestPipeline ---------------------------
(* RequestPipeline for TLC: four requests.  The drop of frame 3 after a     *)
(* flush that met the drop of frame 1 is what stale out of sequence buffers *)
(* are about; frame 4 has both a preview and a JPEG buffer.                 *)
EXTENDS RequestPipeline
BatchesOfTwo == {0, 2}
FourRequests == <<{"preview", "reprocess"}, {"preview"}, {"preview"}, {"snapshot"}>>
=============================================================================
