------------------------------- MODULE Calls --------------------------------
(***************************************************************************)
(* A request as the sequence of its calls.  The state d of a component is  *)
(* a record with three fields besides its tables:                          *)
(*   left    the calls until one fails, 0 if none will;                    *)
(*   err     the request has returned an error;                            *)
(*   failed  a call has failed at some time.                               *)
(* The operators below take the state before a call and the state the call *)
(* is to make.  Without a transaction what was done before a failure stays.*)
(***************************************************************************)
EXTENDS Naturals, Functions

\* Tables are partial functions from names to rows.
Put(f, x, v) == [y \in DOMAIN f \cup {x} |-> IF y = x THEN v ELSE f[y]]
Drop(f, x) == Restrict(f, DOMAIN f \ {x})

Count(d) == [d EXCEPT !.left = IF @ = 0 THEN 0 ELSE @ - 1]
Broken(d) == [d EXCEPT !.left = 0, !.failed = TRUE]
Fails(d) == d.left = 1

\* A call whose error ends the request: if err != nil { return err }.
Do(d, new) ==
  IF d.err THEN d
  ELSE IF Fails(d) THEN [Broken(d) EXCEPT !.err = TRUE]
  ELSE [new EXCEPT !.left = Count(d).left]

\* A call whose error is only logged.
Try(d, new) ==
  IF d.err THEN d ELSE IF Fails(d) THEN Broken(d) ELSE [new EXCEPT !.left = Count(d).left]

\* A check that ends the request with an error.
Refuse(d, bad) == IF bad THEN [d EXCEPT !.err = TRUE] ELSE d

\* What a request does unless it has ended.
Then(d, new) == IF d.err THEN d ELSE new

\* A transaction: an error undoes what it did.
Transact(d, new) ==
  IF new.err THEN [d EXCEPT !.err = TRUE, !.left = new.left, !.failed = new.failed] ELSE new

\* The start of a request whose k-th call is to fail, and its end.  An error that
\* comes after a change counts as a failure.
Begin(d, k) == [d EXCEPT !.left = k]
End(d, new) ==
  LET r == [new EXCEPT !.left = 0, !.err = FALSE]
  IN IF new.err /\ r # [d EXCEPT !.failed = r.failed] THEN [r EXCEPT !.failed = TRUE] ELSE r
=============================================================================
