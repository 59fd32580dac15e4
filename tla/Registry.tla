------------------------------- MODULE Registry -------------------------------
(***************************************************************************)
(* RemoteDigest of internal/registry/registry.go: what a tag points at, in *)
(* one request or, when the registry wants a token, in three.  Tags may    *)
(* move between two of them.                                               *)
(***************************************************************************)
CONSTANTS
    Repos,          \* repositories, with the one tag that is asked for
    Digests, Absent,    \* "no digest", beside an error
    Guarded,        \* repositories that want a token (external)
    Private,        \* those that give no manifest to an anonymous token
    Creds           \* repositories config.json has credentials for

VARIABLES
    tag,        \* [Repos -> the digest the tag points at]
    asked,      \* the repository of the call, or Absent
    at,         \* the call's next request, "none" or "answered"
    bearer,     \* the token it holds: "none", "anonymous" or "user"
    answer,     \* the digest returned, when there is no error
    failed      \* the error returned

call == <<asked, at, bearer, answer, failed>>
vars == <<tag, call>>

TypeOK ==
    /\ tag \in [Repos -> Digests]
    /\ asked \in Repos \cup {Absent}
    /\ at \in {"none", "head", "token", "again", "answered"}
    /\ bearer \in {"none", "anonymous", "user"}
    /\ answer \in Digests \cup {Absent} /\ failed \in BOOLEAN

-----------------------------------------------------------------------------
Ask(r) ==
    /\ at = "none" /\ at' = "head" /\ asked' = r
    /\ UNCHANGED <<tag, bearer, answer, failed>>

\* Slip: a response without Docker-Content-Digest is no error.
HeaderOptional == {tag[asked], Absent}

\* What a 200 may carry: the digest, or else head reports an error.
Header == {tag[asked]}

Returns(digests) ==
    /\ answer' \in digests /\ at' = "answered"
    /\ UNCHANGED <<tag, asked, bearer, failed>>

\* Any error ends the call: the network, a status, a missing header.
Fails ==
    /\ failed' = TRUE /\ at' = "answered"
    /\ UNCHANGED <<tag, asked, bearer, answer>>

\* The first HEAD is answered, or challenged.
Head ==
    /\ at = "head"
    /\ \/ asked \notin Guarded /\ Returns(Header)
       \/ asked \in Guarded /\ at' = "token" /\ UNCHANGED <<tag, asked, bearer, answer, failed>>
       \/ Fails

\* authenticate; some endpoints answer without a token.
Authenticate ==
    /\ at = "token"
    /\ \/ /\ at' = "again"
          /\ bearer' \in {"none", IF asked \in Creds THEN "user" ELSE "anonymous"}
          /\ UNCHANGED <<tag, asked, answer, failed>>
       \/ Fails

\* Whether the token will do; one that will not is answered by an error.
Admitted == bearer = "user" \/ (bearer = "anonymous" /\ asked \notin Private)

\* The second HEAD; a second challenge is an error.
HeadAgain ==
    /\ at = "again"
    /\ \/ Admitted /\ Returns(Header)
       \/ Fails

\* The caller has the result.
Return ==
    /\ at = "answered" /\ at' = "none"
    /\ asked' = Absent /\ bearer' = "none" /\ answer' = Absent /\ failed' = FALSE
    /\ UNCHANGED tag

\* Somebody pushes.
Push(r, d) ==
    /\ d # tag[r] /\ tag' = [tag EXCEPT ![r] = d]
    /\ UNCHANGED call

Init ==
    /\ tag \in [Repos -> Digests]
    /\ asked = Absent /\ at = "none" /\ bearer = "none"
    /\ answer = Absent /\ failed = FALSE

Next ==
    \/ (\E r \in Repos : Ask(r) \/ \E d \in Digests : Push(r, d))
    \/ Head \/ Authenticate \/ HeadAgain \/ Return

Spec == Init /\ [][Next]_vars
=============================================================================
