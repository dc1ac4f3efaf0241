------------------------------ MODULE Resolver ------------------------------
(* scoped_getaddrinfo of resolver.py: the market streams of all assets and   *)
(* the public HTTP client override name resolution at the same time, each in *)
(* its own thread, by sharing the process-global socket.getaddrinfo. One     *)
(* dispatcher is installed while any context is open and takes the overrides *)
(* from the calling thread's stack.                                          *)
EXTENDS Integers, Sequences, FiniteSets

CONSTANTS
  Clients,   \* threads that open contexts
  Overrides, \* override maps
  MaxDepth   \* bound: contexts one thread nests

ASSUME ResolverAssumption == MaxDepth \in Nat

VARIABLES
  installed, \* socket.getaddrinfo: "system" or "dispatcher"
  base,      \* _resolver_base
  contexts,  \* _resolver_contexts
  stack,     \* the thread-local stacks of overrides
  step       \* a context being opened or closed: the lock is free in between

resolverVars == <<installed, base, contexts, stack, step>>

Resolvers == {"system", "dispatcher"}

ResolverTypeOK ==
  /\ installed \in Resolvers
  /\ base \in Resolvers
  /\ contexts \in Int
  /\ stack \in [Clients -> Seq(Overrides)]
  /\ step \in [Clients -> {"none", "opening", "closing"}]

ResolverInit ==
  /\ installed = "system"
  /\ base = "system"
  /\ contexts = 0
  /\ stack = [c \in Clients |-> <<>>]
  /\ step = [c \in Clients |-> "none"]

\* The locked part of entering: the first context installs the dispatcher.
Open(c) ==
  /\ step[c] = "none"
  /\ Len(stack[c]) < MaxDepth
  /\ step' = [step EXCEPT ![c] = "opening"]
  /\ IF contexts = 0
       THEN base' = installed /\ installed' = "dispatcher"
       ELSE UNCHANGED <<base, installed>>
  /\ contexts' = contexts + 1
  /\ UNCHANGED stack

Push(c) ==
  /\ step[c] = "opening"
  /\ step' = [step EXCEPT ![c] = "none"]
  /\ \E o \in Overrides : stack' = [stack EXCEPT ![c] = Append(@, o)]
  /\ UNCHANGED <<installed, base, contexts>>

Pop(c) ==
  /\ step[c] = "none"
  /\ stack[c] # <<>>
  /\ step' = [step EXCEPT ![c] = "closing"]
  /\ stack' = [stack EXCEPT ![c] = SubSeq(@, 1, Len(@) - 1)]
  /\ UNCHANGED <<installed, base, contexts>>

\* Mutation: every context restores what it found, in whatever order.
CloseEach(c) ==
  /\ step[c] = "closing"
  /\ step' = [step EXCEPT ![c] = "none"]
  /\ contexts' = contexts - 1
  /\ installed' = base
  /\ UNCHANGED <<base, stack>>

\* The locked part of leaving: the last context restores the system resolver.
Close(c) ==
  /\ step[c] = "closing"
  /\ step' = [step EXCEPT ![c] = "none"]
  /\ contexts' = contexts - 1
  /\ installed' = IF contexts = 1 THEN base ELSE installed
  /\ UNCHANGED <<base, stack>>

ResolverNext ==
  \E c \in Clients : Open(c) \/ Push(c) \/ Pop(c) \/ Close(c)

ResolverSpec == ResolverInit /\ [][ResolverNext]_resolverVars

\* In whatever order threads leave their contexts, a thread inside one resolves
\* through the dispatcher, the dispatcher falls back to the system resolver and
\* never to itself, and the system resolver is back after the last context.
ResolverScoped ==
  /\ base = "system"
  /\ \A c \in Clients : stack[c] # <<>> => installed = "dispatcher"
  /\ (\A c \in Clients : stack[c] = <<>> /\ step[c] = "none")
       => installed = "system"
=============================================================================
