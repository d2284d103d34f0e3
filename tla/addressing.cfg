SPECIFICATION Spec
CONSTANTS
  Base = 4
  None = None
  Words = {0, 1, 5, 6, 27, 100, 228, 255}
  MaxInterfaces = 3
INVARIANT AddressesSurviveText
INVARIANT OwnAddressFound
