SPECIFICATION Spec
CONSTANTS Slots=5
MaxPid=5
PROPERTY ZombiesAreReleased
