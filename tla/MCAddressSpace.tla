--------------------------- MODULE MCAddressSpace ---------------------------
(***************************************************************************)
(* A small instance of AddressSpace for TLC: six segments, of which four   *)
(* are taken over, in two orders, and the library's shared heap.           *)
(***************************************************************************)
EXTENDS AddressSpace

CONSTANTS main, p1, p2, p3, text, data, lib, libc, tls, heap, stack, page1, page2, page3

MCProcs == {main, p1, p2, p3}
MCSegs  == {text, data, lib, libc, tls, heap, stack}
MCNamed == {text, data, lib, libc, stack}
MCPerm  == [s \in MCSegs |->
              CASE s = text -> "r-xp" [] s = heap -> "rw-s" [] OTHER -> "rw-p"]
MCLines1 == <<text, data, heap, libc, lib, tls, stack>>
MCLines2 == <<heap, text, tls, lib, data, libc, stack>>
MCMachines == {[lines |-> MCLines1, missing |-> {data}],
               [lines |-> MCLines1, missing |-> {lib}],
               [lines |-> MCLines2, missing |-> {data, libc}]}
MCThreads == Permutations({p1, p2, p3})
MCPages == <<page1, page2, page3>>

=============================================================================
