---------------------------- MODULE TupleBuffer ----------------------------
(***************************************************************************)
(* The chained buffers of tuple_buffer.h, in which the threads of a join   *)
(* leave their results, and reading them back, the last tuple first, as    *)
(* write_result_relation does.  Nothing calls the functions that read      *)
(* forwards (cb_begin, cb_read_next) or free a buffer.                     *)
(*                                                                         *)
(* A chainedtuplebuffer_t is a record.  Its buffers are a sequence, cb.buf *)
(* first; a cursor is an index in it, one beyond the last being NULL.      *)
(***************************************************************************)
EXTENDS Integers, Sequences

CONSTANTS
    CHAINEDBUFF_NUMTUPLESPERBUF,
    UINT32_SIZE         \* 2^32: where the positions wrap around

ASSUME BufferAssumption ==
    /\ CHAINEDBUFF_NUMTUPLESPERBUF \in Nat \ {0}
    /\ UINT32_SIZE \in Nat /\ UINT32_SIZE > CHAINEDBUFF_NUMTUPLESPERBUF

BufferIndex == 0 .. CHAINEDBUFF_NUMTUPLESPERBUF - 1

(* What a buffer holds where nothing was written. *)
Unwritten == <<0, 0>>
NewBuffer == [n \in BufferIndex |-> Unwritten]

chainedtuplebuffer_init ==
    [buf |-> <<NewBuffer>>, readcursor |-> 1, writepos |-> 0, readpos |-> 0]

(* cb_next_writepos, and the write of a tuple to the place it returns.     *)
WithRoom(cb) ==
    IF cb.writepos = CHAINEDBUFF_NUMTUPLESPERBUF
    THEN [cb EXCEPT !.buf = <<NewBuffer>> \o @, !.writepos = 0]
    ELSE cb

Written(cb, tuple) ==
    LET c == WithRoom(cb)
    IN  [c EXCEPT !.buf[1][c.writepos] = tuple, !.writepos = @ + 1]

BeginBehindTheLast(cb) ==                   \* slip: writepos, not writepos - 1
    [cb EXCEPT !.readpos = cb.writepos % CHAINEDBUFF_NUMTUPLESPERBUF, !.readcursor = 1]

cb_begin_backwards(cb) ==
    [cb EXCEPT !.readpos = (cb.writepos - 1) % UINT32_SIZE, !.readcursor = 1]

(* cb_read_backwards: what it returns, and what it leaves. *)
Current(cb) == cb.buf[cb.readcursor][cb.readpos]

cb_read_backwards(cb) ==
    IF cb.readpos = 0
    THEN [cb EXCEPT !.readpos = CHAINEDBUFF_NUMTUPLESPERBUF - 1, !.readcursor = @ + 1]
    ELSE [cb EXCEPT !.readpos = @ - 1]

(* The loop of write_result_relation: the tuples of nresults reads.        *)
ReadBack(cb, nresults) ==
    LET reader[n \in 0 .. nresults] ==
            IF n = 0 THEN cb_begin_backwards(cb) ELSE cb_read_backwards(reader[n - 1])
    IN  [n \in 1 .. nresults |-> Current(reader[n - 1])]
=============================================================================
