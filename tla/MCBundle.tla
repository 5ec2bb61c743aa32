------------------------------ MODULE MCBundle ------------------------------
(* TLC instances of BundleLifecycle.                                       *)
EXTENDS BundleLifecycle, TLC

CONSTANTS
  first, other,         \* submissions
  keyed, plain, clash,  \* requests
  image, web

\* keyed and plain are one content; clash uses keyed's key for another content
\* of the same image.
MCRequests == {keyed, plain, clash}
MCDigest == [r \in Requests |-> IF r \in {keyed, plain} THEN "x" ELSE "y"]
MCKey == [r \in Requests |-> IF r = plain THEN "none" ELSE "k1"]
MCContents == [r \in Requests |-> {image}]
MCReach == [r \in Requests |-> Artifacts]

MCOffered == [s \in Submissions |-> IF s = first THEN {keyed} ELSE {keyed, plain, clash}]
=============================================================================
