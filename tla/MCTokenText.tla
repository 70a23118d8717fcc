------------------------------ MODULE MCTokenText ------------------------------
(***************************************************************************)
(* Instances of JsonInteger, Base64, Digest, TokenLifetime and TokenClaims *)
(* for model checking, which make and read a token and share nothing: a    *)
(* behaviour is one of these modules, while the variables of the others    *)
(* say that they are done with nothing.                                    *)
(***************************************************************************)
EXTENDS JsonInteger

CONSTANTS MaxLength, ByteBits, SymbolBits, WordBits, Pad, Other, Bodies, Encodings,
          MaxClock, TicksPerSecond, Moments, MaxSets, MaxText, MaxInput, Lengths

VARIABLES data, padding, encoded, offset, buffer, bits, output, codec_phase,
          library, length, step, handles, failed, digest, outcome,
          host, lifetime, now, keys, token_phase, ttl, time, nbf, exp,
          binding, asked, sets, stage, options, token, claims

codec_vars == <<data, padding, encoded, offset, buffer, bits, output, codec_phase>>
digest_vars == <<library, length, step, handles, failed, digest, outcome>>
token_vars == <<host, lifetime, now, keys, token_phase, ttl, time, nbf, exp>>
claims_vars == <<binding, asked, sets, stage, options, token, claims>>

BoundaryDigits == {"2", "3"}
BoundaryValues == [d \in BoundaryDigits |-> IF d = "2" THEN 2 ELSE 3]

ShortTexts ==
  UNION {[1 .. n -> {"name", ":", " ", "-"} \cup BoundaryDigits] : n \in 0 .. MaxLength}

\* Up to two groups of bytes at both ends of their range and between.
BoundaryData == UNION {[1 .. n -> {0, 1, 8, 13, 15}] : n \in 0 .. 5}

\* Up to six characters, good and bad.
BoundaryTexts == UNION {[1 .. n -> {0, 5, 7, Pad, Other}] : n \in 0 .. 6}

Codec == INSTANCE Base64 WITH Data <- Bodies, Texts <- Encodings,
                              text <- encoded, phase <- codec_phase

\* Up to one byte more than BCrypt takes.
BoundaryLengths == 0 .. MaxInput + 1

Sha256 == INSTANCE Digest WITH MaxLength <- MaxInput

\* From before the epoch to beyond what 64 bits hold in seconds.
BoundaryMoments == -TicksPerSecond - 1 .. (MaxClock + 2) * TicksPerSecond

Token == INSTANCE TokenLifetime WITH MaxInteger <- MaxClock, Asked <- Moments,
                                     phase <- token_phase

Claims == INSTANCE TokenClaims

ASSUME WidthsAssumption == Codec!WidthsFit
ASSUME InputsAssumption == Codec!InputsFit
ASSUME LengthsAssumption == Sha256!LengthsFit
ASSUME ClockAssumption == Token!ClockFits

NoInteger == /\ text = <<>> /\ phase = "absent" /\ position = 1
             /\ negative = FALSE /\ value = 0 /\ exact = 0

NoCodec == /\ data = <<>> /\ padding = FALSE /\ encoded = <<>> /\ codec_phase = "done"
           /\ offset = 0 /\ buffer = 0 /\ bits = 0 /\ output = <<>>

NoDigest == /\ library = "openssl" /\ length = 0 /\ step = "end" /\ handles = {}
            /\ failed = FALSE /\ digest = "none" /\ outcome = "none"

NoToken == /\ host = "cpp" /\ lifetime = 0 /\ now = 0 /\ keys = FALSE
           /\ token_phase = "unauthenticated" /\ ttl = 0 /\ time = 0 /\ nbf = 0 /\ exp = 0

NoClaims == /\ binding = "cpp" /\ asked = <<>> /\ sets = 0 /\ stage = "signed"
            /\ options = <<>> /\ token = <<>> /\ claims = <<>>

TokenText ==
  /\ \/ Init /\ NoCodec /\ NoDigest /\ NoToken /\ NoClaims
     \/ NoInteger /\ Codec!Init /\ NoDigest /\ NoToken /\ NoClaims
     \/ NoInteger /\ NoCodec /\ Sha256!Init /\ NoToken /\ NoClaims
     \/ NoInteger /\ NoCodec /\ NoDigest /\ Token!Init /\ NoClaims
     \/ NoInteger /\ NoCodec /\ NoDigest /\ NoToken /\ Claims!Init
  /\ [][\/ Next /\ UNCHANGED <<codec_vars, digest_vars, token_vars, claims_vars>>
        \/ Codec!Next /\ UNCHANGED <<vars, digest_vars, token_vars, claims_vars>>
        \/ Sha256!Next /\ UNCHANGED <<vars, codec_vars, token_vars, claims_vars>>
        \/ Token!Next /\ UNCHANGED <<vars, codec_vars, digest_vars, claims_vars>>
        \/ Claims!Next /\ UNCHANGED <<vars, codec_vars, digest_vars, token_vars>>
       ]_<<vars, codec_vars, digest_vars, token_vars, claims_vars>>

\* Bytes come back from their one encoding, and whatever is decoded is the bits
\* of its text (Base64.tla); and what is signed or compared is a digest
\* (Digest.tla).
CryptoExact == Codec!CodecExact /\ Sha256!DigestSound

\* A token lives for what was asked for, and is refused only what the clock
\* cannot hold (TokenLifetime.tla).
LifetimeFits == Token!LifetimeFits

\* A token says what its builder was set to and nothing else (TokenClaims.tla).
ClaimsAsAsked == Claims!ClaimsAsAsked
================================================================================
