---------------------------- MODULE MCBindingCalls ----------------------------
(***************************************************************************)
(* Instances of the calls of the PHP, Python, Ruby, Rust and Java bindings *)
(* for TLC, of the local references of Java, and of the native side of one *)
(* call (MCCAbi.tla).  A process uses one of them: a behaviour is one of   *)
(* the module of its host, while the variables only the others have keep   *)
(* their first values.                                                     *)
(***************************************************************************)
EXTENDS Naturals, HostInvoke, MCCAbi, TLC

CONSTANTS MaxHeaders, MaxCalls

ASSUME BoundsAssumption == MaxHeaders \in Nat /\ MaxCalls \in Nat

VARIABLES host,
          calls, hosted, served, threw,          \* PhpNativeLibrary
          default_lock, default, library,        \* PythonNative
          load_lock, handle, free, bridge, buffers, \* RubyNative
          panicked,                              \* RustNative
          pending, frames, caught, java_threw,   \* JniNative
          method, code, references, callbacks    \* JniReferences

Php == INSTANCE PhpNativeLibrary
Python == INSTANCE PythonNative
Ruby == INSTANCE RubyNative
Rust == INSTANCE RustNative
Java == INSTANCE JniNative WITH threw <- java_threw
Jni == INSTANCE JniReferences WITH frames <- references, calls <- callbacks

phpVars == <<calls, hosted, served, threw>>
rubyVars == <<load_lock, handle, free, bridge, buffers>>
javaVars == <<pending, frames, caught, java_threw>>
pythonVars == <<default_lock, default, library>>
referenceVars == <<method, code, references, callbacks>>
abiVars == <<input, abi_pc, answer, response, http_status, output, length>>
hostVars == <<phpVars, pythonVars, rubyVars, panicked, javaVars, referenceVars,
              abiVars>>

Hosts == {"php", "python", "ruby", "rust", "java", "jni", "c"}

Calls_Init == /\ host \in Hosts
              /\ Abi!Init
              /\ host # "c" => input = CHOOSE i \in Abi!Inputs : TRUE
              /\ Php!Init /\ Python!Init /\ Ruby!Init /\ Rust!Init /\ Java!Init
              /\ Jni!Init
              /\ host # "jni" => method = "call"

Calls_Next ==
  /\ UNCHANGED host
  /\ \/ /\ UNCHANGED <<referenceVars, abiVars>>
        /\ \/ host = "php" /\ Php!Next /\ UNCHANGED <<pythonVars, rubyVars, panicked, javaVars>>
           \/ host = "python" /\ Python!Next /\ UNCHANGED <<phpVars, rubyVars, panicked, javaVars>>
           \/ host = "ruby" /\ Ruby!Next /\ UNCHANGED <<phpVars, pythonVars, panicked, javaVars>>
           \/ host = "rust" /\ Rust!Next /\ UNCHANGED <<phpVars, pythonVars, rubyVars, javaVars>>
           \/ host = "java" /\ Java!Next /\ UNCHANGED <<phpVars, pythonVars, rubyVars, panicked>>
     \/ /\ UNCHANGED <<callVars, phpVars, pythonVars, rubyVars, panicked, javaVars>>
        /\ \/ host = "jni" /\ Jni!Next /\ UNCHANGED abiVars
           \/ host = "c" /\ Abi!Next /\ UNCHANGED referenceVars

Calls_Spec == Calls_Init /\ [][Calls_Next]_<<callVars, host, hostVars>>

CallSymmetry == Permutations(Calls)

-------------------------------------------------------------------------------
\* No call runs in what is another's: a callback of PHP runs the transport or
\* key provider of its own call (PhpNativeLibrary.tla), and no call of Python or
\* Ruby a library that is half loaded or not the one of the calls beside it
\* (PythonNative.tla, RubyNative.tla).
OwnContext == /\ host = "php" => Php!OwnContext
              /\ host = "python" => Python!OneDefault
              /\ host = "ruby" => Ruby!BridgeComplete

\* What the callback of a call throws, and nothing the native side or another
\* call made of it, is what its own invoke throws: an error, a panic of Rust, a
\* pending exception of Java.
OwnErrorWins ==
  CASE host = "php" -> Php!OwnErrorWins
    [] host = "rust" -> Rust!OwnFailure
    [] host = "java" -> Java!OwnException
    [] OTHER -> HostErrorWins

\* What a call borrows or allocates lives as long as native code may use it and
\* is gone when the call has ended: the result of the C ABI, the context of
\* PHP, the answers of Ruby, the local frames of Java.
CallsCleanUp ==
  /\ ResultFreed
  /\ host = "php" => Php!ContextsAreCalls
  /\ host = "ruby" => Ruby!BuffersOfCalls
  /\ host = "java" => Java!FramesPopped

\* C++ calls JNI only while no Java exception is pending (JniNative.tla), and
\* holds no more of its references than there is room for (JniReferences.tla).
JniRespected == Java!NoCallWhilePending /\ Jni!ReferencesFit
================================================================================
