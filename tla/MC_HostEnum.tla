----------------------------- MODULE MC_HostEnum -----------------------------
(* Model-checking instance of HostEnum; the other constants are in the .cfg. *)
EXTENDS HostEnum

\* One interface with more endpoints than epDesc[] holds.
CfgOneItf == <<"ITF", "EP", "EP", "EP">>
\* A CDC device: a communication interface with a class-specific
\* descriptor and an interrupt endpoint, and a data interface with two.
CfgCdc == <<"ITF", "CS", "EP", "ITF", "EP", "EP">>
\* More interfaces than interface[] holds, one of them without endpoints.
CfgThreeItf == <<"ITF", "EP", "ITF", "ITF", "EP">>

MCConfigs == {CfgOneItf, CfgCdc, CfgThreeItf}
=============================================================================
