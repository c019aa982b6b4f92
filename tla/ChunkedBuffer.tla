---------------------------- MODULE ChunkedBuffer ----------------------------
(***************************************************************************)
(* ChunkedBuffer<T, ChunkSize>: what the lists of rows are kept in.  A     *)
(* chunk is its storage, of ChunkSize slots, Raw where nothing was built;  *)
(* current_chunk_count_ is of the last chunk.                              *)
(***************************************************************************)
EXTENDS Naturals, SequencesExt

CONSTANT ChunkSize
ASSUME ChunkSizeAssumption == ChunkSize \in Nat \ {0}

Raw == << >>
Slots == 0..(ChunkSize - 1)
Buffer == [chunks |-> << >>, current_chunk_count |-> 0, total_size |-> 0]

Allocated(b) == [b EXCEPT !.chunks = Append(@, [i \in Slots |-> Raw]), !.current_chunk_count = 0]

Built(b, x) ==
    [b EXCEPT !.chunks[Len(b.chunks)][b.current_chunk_count] = x,
              !.current_chunk_count = @ + 1,
              !.total_size = @ + 1]
EmplaceBackInOneChunk(b, x) == Built(IF b.chunks = << >> THEN Allocated(b) ELSE b, x)
EmplaceBack(b, x) ==
    Built(IF b.chunks = << >> \/ b.current_chunk_count = ChunkSize THEN Allocated(b) ELSE b, x)

(* operator[], for an index that at() lets through.                        *)
At(b, index) == b.chunks[index \div ChunkSize + 1][index % ChunkSize]

CountInChunk(b, c) == IF c = Len(b.chunks) THEN b.current_chunk_count ELSE ChunkSize
ToVector(b) ==
    FlattenSeq([c \in DOMAIN b.chunks |->
                   [i \in 1..CountInChunk(b, c) |-> b.chunks[c][i - 1]]])
Iterated(b) == [i \in 1..b.total_size |-> At(b, i - 1)]
Cleared(b) == [chunks |-> << >>, current_chunk_count |-> 0, total_size |-> 0]

(* A buffer whose chunks a move took; std::vector leaves none behind.      *)
MovedFromKeepsSize(b) == [b EXCEPT !.chunks = << >>, !.current_chunk_count = 0]
MovedFrom(b) == [b EXCEPT !.chunks = << >>, !.current_chunk_count = 0, !.total_size = 0]
=============================================================================
