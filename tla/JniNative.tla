------------------------------ MODULE JniNative ------------------------------
(***************************************************************************)
(* The calls of the Java binding (pkg/java/src/main/cpp/                   *)
(* livekit_server_jni.cpp).  A Java exception is pending in the JNIEnv of  *)
(* a thread while C++ runs on: until it is taken out only a few functions  *)
(* of JNI may be called.  Check turns it into the C++ PendingException,    *)
(* which becomes an error of the C ABI, is thrown again by Invoke and lets *)
(* Guard return to Java with the exception still pending.                  *)
(*                                                                         *)
(* A call that Java code makes inside a callback finds the JNIEnv clear    *)
(* and hands its exception to that code; pending is what C++ frames of a   *)
(* call see.                                                               *)
(***************************************************************************)
EXTENDS HostInvoke

VARIABLES pending, \* the calls with a Java exception pending in C++ code
          frames,  \* the calls that pushed a local frame
          caught,  \* context.failure: "none", "pending" or "error"
          threw    \* history: the calls whose Java callback threw

jniVars == <<pending, frames, caught, threw>>
vars == <<callVars, jniVars>>

JniInit == /\ pending = {} /\ frames = {} /\ threw = {}
           /\ caught = [c \in Calls |-> "none"]

Init == CallInit /\ JniInit

-------------------------------------------------------------------------------
\* Native.call, token, getDispatch or receive.
Invoke(c, p) == Enter(c, p) /\ UNCHANGED jniVars

Step(c, from, to) == /\ Goto(c, from, to)
                     /\ UNCHANGED <<parent, failure, result, heap, outcome>>

\* The arguments are read: a JNI function may leave an exception, or the options
\* be no JSON, before the C ABI is called.
Begin(c) == TakeLease(c) /\ UNCHANGED jniVars

ArgumentsFail(c, how) ==
  /\ EncodingFails(c)
  /\ caught' = [caught EXCEPT ![c] = how]
  /\ pending' = IF how = "pending" THEN pending \cup {c} ELSE pending
  /\ UNCHANGED <<frames, threw>>

Native(c) == /\ \/ CallNative(c)
                \/ \E r \in Results \ {"none"} : NativeReturns(c, r)
             /\ UNCHANGED jniVars

-------------------------------------------------------------------------------
\* Exchange

PushLocalFrame(c) == /\ Step(c, "native", "framed")
                     /\ frames' = frames \cup {c}
                     /\ UNCHANGED <<pending, caught, threw>>

\* catch (...) keeps what was thrown; the frame is popped on the way.
Fail(c, how) == /\ failure' = [failure EXCEPT ![c] = TRUE]
                /\ caught' = [caught EXCEPT ![c] = how]
                /\ frames' = frames \ {c}

\* Out of memory for the frame, a class or an argument: JNI leaves an exception.
JniFails(c) ==
  /\ \E from \in {"native", "framed", "reading"} : Goto(c, from, "resumed")
  /\ pending' = pending \cup {c}
  /\ Fail(c, "pending")
  /\ UNCHANGED <<parent, result, heap, outcome, threw>>

\* CallObjectMethod: Java code runs, and may call Native again.
CallJava(c) == Step(c, "framed", "callback") /\ UNCHANGED jniVars

JavaReturns(c) == /\ Step(c, "callback", "reading") /\ Resumable(c)
                  /\ UNCHANGED jniVars

JavaThrows(c) ==
  /\ Goto(c, "callback", "resumed") /\ Resumable(c)
  /\ pending' = pending \cup {c} /\ threw' = threw \cup {c}
  /\ Fail(c, "pending")
  /\ UNCHANGED <<parent, result, heap, outcome>>

\* A request the C++ side cannot read, or a null or unreadable response.
ReplyFails(c) == /\ \E from \in {"native", "framed", "reading"} : Goto(c, from, "resumed")
                 /\ Fail(c, "error")
                 /\ UNCHANGED <<parent, result, heap, outcome, pending, threw>>

ReplyRead(c) == /\ Step(c, "reading", "resumed")
                /\ frames' = frames \ {c}
                /\ UNCHANGED <<pending, caught, threw>>

-------------------------------------------------------------------------------
\* Invoke and Guard

\* What was caught is thrown again before the result is looked at.
Rethrow(c) ==
  /\ failure[c]
  /\ Goto(c, "returned", "free")
  /\ outcome' = [outcome EXCEPT ![c] = IF caught[c] = "pending" THEN "host_error" ELSE "sdk_error"]
  /\ UNCHANGED <<parent, failure, result, heap, jniVars>>

Read(c) == /\ ~failure[c]
           /\ \E decodes \in BOOLEAN : Decode(c, decodes)
           /\ UNCHANGED jniVars

Free(c) == FreeResult(c) /\ UNCHANGED jniVars

\* PendingException: nullptr, the exception of JNI stays pending.
ReturnPending(c) ==
  /\ caught[c] = "pending"
  /\ ReturnLease(c)
  /\ UNCHANGED jniVars

\* Any other exception is raised as a LiveKitException, unless JNI fails to and
\* leaves an exception of its own.
Raises(c) == caught[c] # "pending" /\ outcome[c] # "value"

Raise(c) == /\ Raises(c)
            /\ ReturnLease(c)
            /\ pending' = pending \cup {c}
            /\ UNCHANGED <<frames, caught, threw>>

\* The value is made a Java object, which JNI may fail to.
ReturnValue(c) == /\ outcome[c] = "value"
                  /\ ReturnLease(c)
                  /\ UNCHANGED jniVars

ValueFails(c) == /\ outcome[c] = "value"
                 /\ Goto(c, "unlease", "ended")
                 /\ outcome' = [outcome EXCEPT ![c] = "sdk_error"]
                 /\ pending' = pending \cup {c}
                 /\ UNCHANGED <<parent, failure, result, heap, frames, caught, threw>>

Continue(c) == \/ Begin(c) \/ Native(c) \/ PushLocalFrame(c) \/ JniFails(c) \/ CallJava(c)
               \/ JavaReturns(c) \/ JavaThrows(c) \/ ReplyFails(c) \/ ReplyRead(c)
               \/ Rethrow(c) \/ Read(c) \/ Free(c)
               \/ ReturnPending(c) \/ Raise(c) \/ ReturnValue(c) \/ ValueFails(c)
               \/ \E how \in {"pending", "error"} : ArgumentsFail(c, how)

AllEnded == (\A c \in Calls : pc[c] = "ended") /\ UNCHANGED vars

Next == \/ \E c \in Calls : Continue(c) \/ \E p \in Calls \cup {None} : Invoke(c, p)
        \/ AllEnded

Spec == Init /\ [][Next]_vars

-------------------------------------------------------------------------------
\* Where C++ is about to call a function of JNI that is forbidden while an
\* exception is pending.
CallsJni(c) == \/ pc[c] \in {"leased", "native", "framed", "callback", "reading"}
               \/ pc[c] = "unlease" /\ caught[c] # "pending"

\* JNI is called only with no exception pending.
NoCallWhilePending == \A c \in pending : ~CallsJni(c)

\* Java gets an exception exactly when it gets no value, and the one its own
\* callback threw rather than what the C ABI made of it.
OwnException == \A c \in Calls : pc[c] = "ended" =>
  /\ c \in pending <=> outcome[c] # "value"
  /\ c \in threw => outcome[c] = "host_error"

\* Every frame is popped before Java code runs on.
FramesPopped == \A c \in frames : pc[c] \in {"framed", "callback", "reading"}
==============================================================================
