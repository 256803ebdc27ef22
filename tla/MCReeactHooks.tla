--------------------------- MODULE MCReeactHooks ---------------------------
(* ReeactHooks with two threads, in processes that lack one function,      *)
(* both of those that are looked up on demand, or none.                    *)
EXTENDS ReeactHooks

CONSTANT other  \* the second thread

AtMostOne  == {{}, OnDemand} \cup {{f} : f \in Functions}
TwoThreads == {Main, other}

=============================================================================
