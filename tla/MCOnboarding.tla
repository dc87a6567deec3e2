---------------------------- MODULE MCOnboarding ----------------------------
(* Small instances of Onboarding for TLC.                                  *)
EXTENDS MCErc20, Onboarding

CONSTANTS listed, unlisted

OnboardingOn == [enableOnboarding |-> TRUE, whitelistedChannels |-> {listed}]
OnboardingOff == [enableOnboarding |-> FALSE, whitelistedChannels |-> {listed}]
OnboardingSettings == {OnboardingOn, OnboardingOff}
=============================================================================
