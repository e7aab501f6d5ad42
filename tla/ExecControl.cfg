CONSTANT Vcpus = {1, 2, 3}
SPECIFICATION FairSpec
INVARIANT WakeOnlyKidnapped
INVARIANT EscapeGuaranteed
PROPERTY KidnappedResumes
