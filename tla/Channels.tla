------------------------------- MODULE Channels -------------------------------
(***************************************************************************)
(* Unbuffered Go channels of results, as Tee, Merge, Join and the batchers *)
(* use them.  A sender offers a value; a receiver takes it; the sender     *)
(* sees that it was taken, or withdraws an offer that nobody took because  *)
(* its context is done.  A closed channel stays closed.                    *)
(*                                                                         *)
(* "log" is history: what has been received over the channel.              *)
(***************************************************************************)
EXTENDS Naturals, Sequences

VARIABLES
  ch,        \* channel name -> [st, val, log]
  canceled   \* the context shared by the operators is done

Fresh == [st |-> "idle", val |-> <<>>, log |-> <<>>]

Free(c) == ch[c].st = "idle"
Ready(c) == ch[c].st = "offer"
Taken(c) == ch[c].st = "taken"
Shut(c) == ch[c].st = "closed"

Value(c) == ch[c].val
Log(c) == ch[c].log

\* Channel states after one operation, to be chained.
Take(f, c) == [f EXCEPT ![c].st = "taken", ![c].log = Append(@, f[c].val)]
Put(f, c, v) == [f EXCEPT ![c].st = "offer", ![c].val = v]
Clear(f, c) == [f EXCEPT ![c].st = "idle", ![c].val = <<>>]
Close(f, C) == [c \in DOMAIN f |-> IF c \in C THEN [f[c] EXCEPT !.st = "closed"] ELSE f[c]]

\* A result of the library: a value or an error.
Ok(x) == [ok |-> TRUE, of |-> x]
Err(x) == [ok |-> FALSE, of |-> x]
===============================================================================
