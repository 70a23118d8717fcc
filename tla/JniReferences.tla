---------------------------- MODULE JniReferences ----------------------------
(***************************************************************************)
(* The local references the JNI code of the Java binding holds             *)
(* (livekit_server_jni.cpp).  A native method may have 16 of them, or as   *)
(* many as EnsureLocalCapacity or PushLocalFrame have asked for; more are  *)
(* an error that a JVM need not tell.  What JNI returns counts until       *)
(* DeleteLocalRef, or until its frame is popped.                           *)
(*                                                                         *)
(* A piece of the code is the sequence of how many references each of its  *)
(* calls adds, or deletes when negative.                                   *)
(***************************************************************************)
EXTENDS Integers, SequencesExt

CONSTANTS MaxHeaders,  \* of a request, which may have any number
          MaxCalls     \* of the transport or the key provider

VARIABLES method,  \* the native method
          code,    \* what is left of the code that runs
          frames,  \* of the method and of its callback: the references it holds and
                   \* how many it may
          calls    \* of the transport or the key provider

vars == <<method, code, frames, calls>>

Guaranteed == 16

\* Bytes, Text and Utf8: one reference is returned by the first two.
ToBytes == <<1>>
Text == <<1, 1, 1, -1, -1>>
Utf8 == <<1, 1, -1, -1>>

Times(n, piece) == FlattenSeq([i \in 1 .. n |-> piece])

\* Record, for a part of an event with n members.
Record(n) == <<1>> \o Times(n, Text) \o <<1>> \o Times(n, <<-1>>) \o <<-1>>

Raise == <<1>> \o Text \o Text \o <<1>>

\* The key and the value of a header are put in the array and let go of.
\* Mutant: they are not.
HeaderKept == Times(2, Text)

Header == Times(2, Text \o <<-1>>)

\* JavaTransport::Send: two classes and the array, the request, the response,
\* its class and its body.
Send(headers) == <<1, 1, 1>> \o Times(headers, Header) \o Text \o Text \o ToBytes \o <<1, 1, 1>>

\* Exchange for a key provider: the class, the issuer and the secret.
KeyProvider == <<1>> \o Text \o <<1>> \o Utf8

\* The event of receive: the class, three texts, the parts and the event itself.
Members == <<3, 4, 2, 3, 3>>
Event(parts) ==
  <<1>> \o Times(3, Text) \o
  FlattenSeq([i \in DOMAIN Members |-> IF i \in parts THEN Record(Members[i]) ELSE <<>>]) \o <<1>>

Init == /\ method \in {"call", "receive"}
        /\ code = <<>> /\ calls = 0
        /\ frames = <<[held |-> 0, capacity |-> IF method = "receive" THEN 64 ELSE Guaranteed]>>

-------------------------------------------------------------------------------
Step == /\ code # <<>>
        /\ code' = Tail(code)
        /\ frames' = [frames EXCEPT ![Len(frames)].held = @ + Head(code)]
        /\ UNCHANGED <<method, calls>>

\* lks_invoke calls Exchange, which pushes a frame for Java to run in.
PushLocalFrame ==
  /\ method # "raising" /\ code = <<>> /\ Len(frames) = 1 /\ frames[1].held = 0
  /\ calls < MaxCalls /\ calls' = calls + 1
  /\ IF method = "call"
     THEN /\ frames' = Append(frames, [held |-> 0, capacity |-> 32])
          /\ \E headers \in 0 .. MaxHeaders : code' = Send(headers)
     ELSE /\ frames' = Append(frames, [held |-> 0, capacity |-> 16])
          /\ code' = KeyProvider
  /\ UNCHANGED method

PopLocalFrame == /\ code = <<>> /\ Len(frames) = 2
                 /\ frames' = Front(frames)
                 /\ UNCHANGED <<method, code, calls>>

\* Java gets the answer, or the event with the parts it has.
Return == /\ method # "raising" /\ code = <<>> /\ Len(frames) = 1 /\ frames[1].held = 0
          /\ IF method = "call" THEN code' = ToBytes
             ELSE \E parts \in SUBSET DOMAIN Members : code' = Event(parts)
          /\ calls' = MaxCalls
          /\ UNCHANGED <<method, frames>>

\* A C++ exception pops the frame and Guard raises it; when JNI has left one
\* pending the method ends.
Throw == /\ \E raised \in {Raise, <<>>} : code' = raised
         /\ method' = "raising" /\ method # "raising"
         /\ frames' = <<Head(frames)>>
         /\ UNCHANGED calls

Returned == /\ code = <<>>
            /\ method = "raising" \/ frames[1].held > 0
            /\ UNCHANGED vars

Next == Step \/ PushLocalFrame \/ PopLocalFrame \/ Return \/ Throw \/ Returned

Spec == Init /\ [][Next]_vars

-------------------------------------------------------------------------------
\* No frame ever holds more references than it has room for, however many
\* headers a request or parts an event has and wherever the code fails.
ReferencesFit == \A i \in DOMAIN frames : frames[i].held \in 0 .. frames[i].capacity
===============================================================================
