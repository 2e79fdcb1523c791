------------------------------- MODULE IceRpc -------------------------------
(***************************************************************************)
(* How an exception thrown in a servant of the chat reaches the caller.    *)
(*                                                                         *)
(* chat.ice declares, operation by operation, the user exceptions the      *)
(* caller can receive. The generated proxy code rethrows a declared one    *)
(* and turns every other user exception into Ice::UnknownUserException;    *)
(* the Ice runtime of the servant turns a local exception that leaves the  *)
(* servant into Ice::UnknownLocalException and anything else (a C string,  *)
(* a standard exception) into Ice::UnknownException. A request failure (no *)
(* such object) is passed on as it is, with the same name at the caller.   *)
(***************************************************************************)

UserExceptions ==
    {"NoSuchRoom", "NameAlreadyExists", "NoSuchUser", "NickNotAvailable"}

\* Ice run-time failures the chat can meet inside a servant: the peer of a
\* nested call is gone, an adapter name is taken, a port is taken, a nested
\* call was answered with such a failure, a name is not the text of an identity
\* or of a proxy.
LocalExceptions ==
    {"ConnectFailed", "AlreadyRegistered", "SocketError", "UnknownLocalException",
     "ParseError"}

\* The local exceptions that the runtime passes on: the proxy leads to an
\* adapter that has no servant of its identity.
RequestFailures == {"ObjectNotExistException"}

\* What a caller whose peer is gone, or goes while it waits, catches.
TransportFailures == {"ConnectFailed", "ConnectionLost"}

\* What `catch (const Ice::UnknownException&)' catches in the callers.
UnknownExceptions ==
    {"UnknownException", "UnknownUserException", "UnknownLocalException"}

Throws ==
    [ listUsers    |-> {},
      join         |-> {"NickNotAvailable"},
      postMessage  |-> {},
      getUser      |-> {"NoSuchUser"},
      Leave        |-> {},
      getRooms     |-> {},
      getRoom      |-> {"NoSuchRoom"},
      newChatRoom  |-> {"NameAlreadyExists"},
      factoryNewChatRoom |-> {},
      getNumberOfRooms   |-> {},
      registerFactory    |-> {},
      unregisterFactory  |-> {},
      sendMessage        |-> {},
      sendPrivateMessage |-> {},
      ice_isA            |-> {} ]

\* A mutant: the exception arrives as it was thrown.
ReceivedAsThrown(op, exc) == exc

\* The exception the caller of op catches when the servant throws exc.
Received(op, exc) ==
    IF exc \in Throws[op] \cup RequestFailures
    THEN exc
    ELSE IF exc \in UserExceptions
         THEN "UnknownUserException"
         ELSE IF exc \in LocalExceptions
              THEN "UnknownLocalException"
              ELSE "UnknownException"

Outcomes == {"ok"} \cup UserExceptions \cup UnknownExceptions \cup RequestFailures
=============================================================================
