------------------------------- MODULE Array -------------------------------
(***************************************************************************)
(* zmq::array_t (src/src/array.hpp): a vector whose items know their       *)
(* position.  Positions count from 0, as in the code.                      *)
(***************************************************************************)
EXTENDS Integers, Sequences

Item(a, i) == a[i + 1]
index(a, x) == (CHOOSE i \in DOMAIN a : a[i] = x) - 1
Has(a, x) == \E i \in DOMAIN a : a[i] = x
swap(a, i, j) == [a EXCEPT ![i + 1] = a[j + 1], ![j + 1] = a[i + 1]]

\* The last item takes the place of the erased one.
erase(a, i) == SubSeq([a EXCEPT ![i + 1] = a[Len(a)]], 1, Len(a) - 1)
=============================================================================
