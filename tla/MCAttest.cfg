CONSTANT Routes <- linuxTPMRoutes
SPECIFICATION Spec
INVARIANT ProbeAvailableAgree
