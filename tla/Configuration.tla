----------------------------- MODULE Configuration -----------------------------
(***************************************************************************)
(* config.Config on its way into a Client: the fluent builders of the      *)
(* packages config and client, Validate, WithDefaults and NewClient.  Both *)
(* builders start from the defaults and take any value afterwards.         *)
(*                                                                         *)
(* A field that holds a number is negative, zero or positive here, a       *)
(* string empty or not; the flags are left out.                            *)
(***************************************************************************)
EXTENDS Integers

CONSTANTS
    Strings,    \* fields that Validate requires: APIKey, Endpoint
    Numbers,    \* fields with a default
    Delay,      \* ReconnectDelay, one of them
    Default     \* stands for the default of a field

ASSUME ConfigAssumption == Delay \in Numbers /\ Default \in Nat \ {0}

ConfigFields == Strings \cup Numbers
Empty == 0
Values(f) == IF f \in Strings THEN {Empty, Default} ELSE {-1, 0, Default}

VARIABLES
    builder,   \* the config of a config.Builder
    facade,    \* the config of a client.Builder
    built,     \* what config.Builder.Build last returned; all is empty before
    client,    \* c.config of the last client, empty if there is none
    validated  \* history: the client comes from client.Builder.Build

configVars == <<builder, facade, built, client, validated>>
Zero == [f \in ConfigFields |-> Empty]

(* Mistake: what has no meaning is replaced, but for the zero value.       *)
Bug_WithDefaultsNegative(c) ==
    [f \in ConfigFields |-> IF f \in Numbers /\ c[f] < 0 THEN Default ELSE c[f]]

WithDefaults(c) ==
    [f \in ConfigFields |-> IF f \in Numbers /\ c[f] = 0 THEN Default ELSE c[f]]

Validate(c) == (\A f \in Strings : c[f] # Empty) /\ c[Delay] >= 0

ConfigInit ==
    /\ builder = WithDefaults(Zero)
    /\ facade = WithDefaults(Zero)
    /\ built = Zero
    /\ client = Zero
    /\ validated = FALSE

-----------------------------------------------------------------------------

(* WithAPIKey, WithReconnectDelay and the others of config.Builder.        *)
With(f, v) ==
    /\ builder' = [builder EXCEPT ![f] = v]
    /\ UNCHANGED <<facade, built, client, validated>>

(* Those of client.Builder.                                                *)
FacadeWith(f, v) ==
    /\ facade' = [facade EXCEPT ![f] = v]
    /\ UNCHANGED <<builder, built, client, validated>>

(* An invalid config is an error, and MustBuild panics.                    *)
Build ==
    /\ Validate(builder)
    /\ built' = builder
    /\ UNCHANGED <<builder, facade, client, validated>>

NewClient(c) ==
    /\ client' = WithDefaults(c)
    /\ validated' = FALSE
    /\ UNCHANGED <<builder, facade, built>>

(* client.Builder.Build                                                    *)
BuildClient ==
    /\ Validate(facade)
    /\ client' = WithDefaults(facade)
    /\ validated' = TRUE
    /\ UNCHANGED <<builder, facade, built>>

(* The configs an application can fill in by itself.                       *)
Literals ==
    {c \in [ConfigFields -> {-1, 0, Default}] : \A f \in ConfigFields : c[f] \in Values(f)}

ConfigNext ==
    \/ \E f \in ConfigFields : \E v \in Values(f) : With(f, v) \/ FacadeWith(f, v)
    \/ Build
    \/ \E c \in Literals : NewClient(c)
    \/ BuildClient

ConfigSpec == ConfigInit /\ [][ConfigNext]_configVars

-----------------------------------------------------------------------------
(* Properties                                                              *)

(* A client never runs with a zero where there is a default, whether its   *)
(* config was filled in by hand, was built, or has been refused by Build   *)
(* (which returns an empty one); it has a key, an endpoint and a positive  *)
(* delay to reconnect with if it comes out of client.Builder.              *)
ClientsAreUsable ==
    /\ client # Zero => \A f \in Numbers : client[f] # 0
    /\ validated => (\A f \in Strings : client[f] # Empty) /\ client[Delay] > 0
    /\ built # Zero => (\A f \in Strings : built[f] # Empty) /\ built[Delay] >= 0
=============================================================================
