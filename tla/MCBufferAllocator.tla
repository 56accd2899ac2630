-------------------------- MODULE MCBufferAllocator --------------------------
(***************************************************************************)
(* Two buffers, the second right behind the first, both at odd addresses.  *)
(***************************************************************************)
EXTENDS BufferAllocator

BaseOf == <<1, 6>>

SizeOf == <<5, 3>>

HeapBytes == 9..12
==============================================================================
