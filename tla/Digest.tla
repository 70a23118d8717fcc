-------------------------------- MODULE Digest --------------------------------
(***************************************************************************)
(* A SHA-256 or an HMAC of src/detail/crypto.cpp: the calls of the library *)
(* it is built on, BCrypt or OpenSSL, each of which may fail, and the      *)
(* handles BCrypt gives out.  Tokens are signed and webhooks verified with *)
(* what it returns.                                                        *)
(***************************************************************************)
EXTENDS Naturals

CONSTANTS MaxLength,  \* the largest length BCrypt takes, 2^32 - 1
          Lengths     \* the lengths of an input

LengthsFit == MaxLength \in Nat /\ Lengths \subseteq Nat

VARIABLES library, \* bcrypt or openssl
          length,  \* the longer of the secret and the value
          step,    \* the call that is next
          handles, \* those that are open
          failed,  \* whether a call has failed
          digest,  \* what the bytes to return are: none, zeros or the digest
          outcome  \* digest, an error or none yet

vars == <<library, length, step, handles, failed, digest, outcome>>

Init == /\ library \in {"bcrypt", "openssl"} /\ length \in Lengths
        /\ step = "begin" /\ handles = {} /\ failed = FALSE
        /\ digest = "none" /\ outcome = "none"

At(label, next) == step = label /\ step' = next /\ UNCHANGED <<library, length>>

Ends(label, result) == At(label, "end") /\ outcome' = result

\* BCryptDigest
Begin == /\ library = "bcrypt" /\ length <= MaxLength
         /\ At("begin", "open")
         /\ UNCHANGED <<handles, failed, digest, outcome>>

TooLarge == /\ library = "bcrypt" /\ length > MaxLength
            /\ Ends("begin", "invalid_argument")
            /\ UNCHANGED <<handles, failed, digest>>

Open == /\ At("open", "properties")
        /\ \/ handles' = {"algorithm"} /\ UNCHANGED failed
           \/ failed' = TRUE /\ UNCHANGED handles
        /\ UNCHANGED <<digest, outcome>>

\* The sizes of the hash object and of the digest are asked for.
Properties == /\ ~failed
              /\ At("properties", "allocate")
              /\ failed' \in BOOLEAN
              /\ UNCHANGED <<handles, digest, outcome>>

NotInitialized == /\ failed
                  /\ step \in {"properties", "allocate"}
                  /\ Ends(step, "authentication")
                  /\ handles' = {}
                  /\ UNCHANGED <<failed, digest>>

\* There may be no memory for them, when the algorithm stays open.
Allocate == /\ ~failed
            /\ \/ At("allocate", "create") /\ digest' = "zeros" /\ UNCHANGED outcome
               \/ Ends("allocate", "bad_alloc") /\ UNCHANGED digest
            /\ UNCHANGED <<handles, failed>>

Create == /\ At("create", "hash")
          /\ \/ handles' = handles \cup {"hash"} /\ UNCHANGED failed
             \/ failed' = TRUE /\ UNCHANGED handles
          /\ UNCHANGED <<digest, outcome>>

Hash == /\ ~failed
        /\ At("hash", "finish")
        /\ failed' \in BOOLEAN
        /\ UNCHANGED <<handles, digest, outcome>>

Finish == /\ ~failed
          /\ At("finish", "close")
          /\ \/ digest' = "digest" /\ UNCHANGED failed
             \/ failed' = TRUE /\ UNCHANGED digest
          /\ UNCHANGED <<handles, outcome>>

\* The calls after one that failed are not made, but for those that close.
Close == /\ step \in {"hash", "finish", "close"}
         /\ failed \/ step = "close"
         /\ Ends(step, IF failed THEN "authentication" ELSE "digest")
         /\ handles' = {}
         /\ UNCHANGED <<failed, digest>>

\* OpenSSL does it in one call, and says how much it has written.
OpenSsl == /\ library = "openssl"
           /\ \/ Ends("begin", "digest") /\ digest' = "digest"
              \/ Ends("begin", "authentication") /\ digest' = "zeros"
              \/ Ends("begin", "bad_alloc") /\ UNCHANGED digest
           /\ failed' = (outcome' # "digest")
           /\ UNCHANGED handles

Ended == step = "end" /\ UNCHANGED vars

Next == \/ Begin \/ TooLarge \/ Open \/ Properties \/ NotInitialized \/ Allocate
        \/ Create \/ Hash \/ Finish \/ Close \/ OpenSsl \/ Ended

Spec == Init /\ [][Next]_vars

-------------------------------------------------------------------------------
\* What is returned as a digest is one, never the zeros it is written over or
\* half of it, for an input the library has taken whole; and nothing stays open,
\* unless memory ran out (the algorithm of BCrypt is closed by no destructor).
DigestSound ==
  /\ outcome = "digest" => digest = "digest"
  /\ outcome \notin {"none", "bad_alloc"} => handles = {}
  /\ library = "bcrypt" /\ outcome = "digest" => length <= MaxLength
===============================================================================
