------------------------------ MODULE MCUserWrite -----------------------------
EXTENDS UserWrite

\* Every page of the user range absent, the user's, or the kernel's only; the
\* frames are in the opposite order.
Spaces ==
    {[p \in Page |-> IF kind[p] = "absent" THEN None
                     ELSE [frame |-> Max(Page) - p, user |-> kind[p] = "user"]] :
        kind \in {f \in [Page -> {"absent", "user", "kernel"}] :
                    /\ f[0] = "absent"
                    /\ f[Max(Page)] = "kernel"}}
===============================================================================
