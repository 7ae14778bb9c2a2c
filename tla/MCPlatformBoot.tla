--------------------------- MODULE MCPlatformBoot --------------------------
(* Constants for model-checking PlatformBoot.                              *)
EXTENDS PlatformBoot

AllPlatforms == DOMAIN Code
BstaOnly == {"bsta"}
=============================================================================
