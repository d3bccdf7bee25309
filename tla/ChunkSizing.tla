---------------------------- MODULE ChunkSizing ----------------------------
(***************************************************************************)
(* How many rows an answer to FetchChunk carries: RequestState::recordFetch *)
(* (RequestRegistry.cpp), which moves the suggestion with the pace at which *)
(* the client fetches, and the head of FetchChunk, which sets what the      *)
(* client asked for against it.                                             *)
(*                                                                          *)
(* The moving average of the time between fetches is one of three paces:    *)
(* "fast" below 20 ms, "slow" above 500, "steady" between.  The numbers are *)
(* uint32_t, 32 bits wide in the code and Word values wide here.            *)
(***************************************************************************)
EXTENDS Naturals, FiniteSetsExt

CONSTANTS Word,            \* 2^32
          InitialChunk,    \* initial_chunk_rows
          MinChunk,        \* min_chunk_rows
          MaxChunk         \* max_chunk_rows

(* The parameters are ints: a quarter more than one of them does not wrap. *)
ASSUME ChunkConstants ==
  /\ Word \in Nat \ {0}
  /\ \A c \in {InitialChunk, MinChunk, MaxChunk} : c \in Nat /\ c + c \div 4 + 1 < Word

Pace == {"fast", "steady", "slow"}

Grown(s) == Min({MaxChunk, s + s \div 4 + 1})

(* The difference wraps at 0. *)
Shrunk(s) == Max({MinChunk, (Word + s - s \div 4 - 1) % Word})

Moved(s, pace) ==
  IF pace = "fast" THEN Grown(s) ELSE IF pace = "slow" THEN Shrunk(s) ELSE s

(* Mutant: without the last two lines, as record_fetch of node_server.py. *)
SuggestionUnclamped(s, pace) == Moved(s, pace)

(* recordFetch: the floor first, then the cap. *)
Suggestion(s, pace) == Min({MaxChunk, Max({MinChunk, Moved(s, pace)})})

(* What FetchChunk takes: 0 leaves it to the portal. *)
Asked(want, s) == Min({MaxChunk, IF want = 0 THEN s ELSE want})
=============================================================================
