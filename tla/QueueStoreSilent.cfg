SPECIFICATION Spec
CONSTANTS
    MaxVersion = 3
    MaxDamage = 1
PROPERTY NeverSilentlyEmpty
