---------------------------- MODULE MCChunkFetch ----------------------------
(***************************************************************************)
(* ChunkFetch for TLC.                                                     *)
(***************************************************************************)
EXTENDS ChunkFetch, TLC

CONSTANTS r1, r2

(* One reader asks for the whole file, the other for some of it or all. *)
MCRanges == (r1 :> {<<0, 1>>, <<0, 2>>}) @@ (r2 :> {<<0, 2>>})

(* A chunk is two frames, as MemoryChunkSize and DefaultCompressFrameSize  *)
(* have it.                                                                *)
MCChunkSize == [g \in {"chunk", "frame"} |-> IF g = "chunk" THEN 2 ELSE 1]
=============================================================================
